---------------------------- MODULE Spec2Model ----------------------------
(***************************************************************************)
(* Presentation pipeline of the renderer (VideoCommon/RenderBase.cpp) and  *)
(* its D3D backend (VideoBackends/D3D/Render.cpp).                         *)
(*                                                                         *)
(* Three threads are modelled:                                             *)
(*   - the render thread (Swap, BeginUIFrame/EndUIFrame, Shutdown),        *)
(*     position rpc with the call stack rstack;                            *)
(*   - the frame-dump worker (RunFrameDumps), position wpc;                *)
(*   - the host UI thread (ChangeSurface, ResizeSurface, SetFullscreen,    *)
(*     SaveScreenshot, overlay input), position upc.                       *)
(* A thread's function is cut into steps at its accesses to state shared   *)
(* with another thread (mutexes, events, flags, the job description).      *)
(*                                                                         *)
(* Spec         render thread + worker: swap, frame dump, shutdown.        *)
(* SpecSurface  render thread + UI thread: surface and fullscreen          *)
(*              lifecycle, with frame dumping switched off.                *)
(***************************************************************************)
EXTENDS Integers, Sequences, FiniteSets, TLC

\* ----------------------------------------------------------------- bounds
\* XFB cache-entry ids handed out by the texture cache: 1..MaxXfbId
MaxXfbId == 2
\* native surface handles: 1..MaxHandle (0 is nullptr)
MaxHandle == 1
\* distinct frame-dump target sizes
MaxDumpSize == 2
\* distinct backbuffer sizes
MaxBackbuffer == 2
\* flushes of one aspect class counted by the vertex manager in one frame
MaxFlushCount == 4
\* backbuffer widths and heights in pixels: 1..MaxWindow
MaxWindow == 8
\* settings that change between two configuration checks: at most
\* MaxConfigChanges of the tracked ones
MaxConfigChanges == 2
\* SaveScreenshot calls made by the host
MaxScreenshots == 2
\* SaveScreenshot calls in the behaviours that are followed to their end
MaxFairScreenshots == 1
\* images of one continuous dump: framedump_1.png to framedump_<MaxImages>.png
MaxImages == 2

\* ------------------------------------------------------------- constants
\* m_last_xfb_id before any frame was presented (u64 max); never a cache id
NoXfbId == -1
\* GetXFBTexture returned no entry
NoEntry == 0
\* nullptr surface handle
NullHandle == 0
\* Renderer::ConfigChangeBits
CONFIG_CHANGE_BIT_HOST_CONFIG == 1
CONFIG_CHANGE_BIT_MULTISAMPLES == 2
CONFIG_CHANGE_BIT_STEREO_MODE == 4
CONFIG_CHANGE_BIT_TARGET_SIZE == 8
CONFIG_CHANGE_BIT_ANISOTROPY == 16
CONFIG_CHANGE_BIT_FORCE_TEXTURE_FILTERING == 32
CONFIG_CHANGE_BIT_VSYNC == 64
CONFIG_CHANGE_BIT_BBOX == 128
\* native EFB and maximum XFB dimensions, and the iEFBScale value that
\* selects the automatic integral scale
EFB_WIDTH == 640
EFB_HEIGHT == 528
MAX_XFB_WIDTH == 720
MAX_XFB_HEIGHT == 576
EFB_SCALE_AUTO_INTEGRAL == 0
\* backend_info.MaxTextureSize of the highest and the lowest feature level
MaxTextureSize_11_0 == 16384
MaxTextureSize_9_1 == 2048

XfbIds == 1..MaxXfbId
Handles == 0..MaxHandle
\* staging texture objects: two array slots plus one the worker may still
\* reference
TexIds == 1..3
\* sizes of the frame-dump render texture: 1..MaxDumpSize (0 is "no texture")
DumpSizes == 1..MaxDumpSize
\* backbuffer sizes the swap chain can report: 1..MaxBackbuffer
BackbufferSizes == 1..MaxBackbuffer
NoTex == [id |-> 0, size |-> 0]

VARIABLES
  \* render thread
  rpc, rstack, call,
  \* swap state
  m_last_xfb_id,
  \* frame dump: render side
  m_last_frame_exported, m_frame_dump_frame_running,
  m_frame_dump_render_texture, m_frame_dump_readback_textures, mapped,
  \* frame dump: shared with the worker
  m_frame_dump_thread_running, m_frame_dump_start, m_frame_dump_done,
  m_frame_dump_config, m_screenshot_request, m_DumpFrames,
  \* worker thread
  wpc, w_config, frame_dump_started,
  \* observation of the dump hand-off
  job_pending, job_buf, w_read,
  \* surface lifecycle (m_backbuffer: which of the sizes the swap chain
  \* can report the backbuffer has, width and height taken together)
  m_swap_mutex, m_imgui_mutex, m_new_surface_handle, m_surface_changed,
  m_surface_resized, m_fullscreen_state, m_last_fullscreen_state,
  d3d_hwnd, d3d_fullscreen, m_backbuffer, bBorderlessFullscreen,
  \* UI thread
  upc, u_arg,
  \* observation of the surface lifecycle
  bindobs, csobs, ui_backend_call,
  \* widescreen detection
  m_aspect_wide, aspectobs,
  \* presentation geometry, in pixels; followed by the specifications of
  \* the draw rectangle and of the configuration check, which take the
  \* statements of Swap that compute them as steps of their own
  g_ActiveConfig, vi_aspect, m_backbuffer_width, m_backbuffer_height,
  m_target_rectangle, rectobs,
  \* render-target size and configuration check
  max_texture_size, m_efb_scale, m_target_width, m_target_height, confobs,
  \* dimensions of the last XFB presented, and the observation of the last
  \* CalculateTargetSize call
  m_last_xfb_width, m_last_xfb_height, targetobs,
  \* synchronous screenshots: the filename of the request, the completion
  \* event, and the observation of the calls and of the files written
  m_screenshot_name, m_screenshot_completed, shotobs,
  \* window-size requests to the host: the last computed size and the
  \* observation of the last SetWindowSize call
  m_last_window_request, windowobs,
  \* creation of backend objects: the observation of InitializeImGui and
  \* of the creations in DumpCurrentFrame
  imguiobs, createobs,
  \* continuous dumping to images: the silent setting, the number of the
  \* next image, the numbers of the framedump_<n>.png files that exist, and
  \* the observation of the worker's last dump step
  m_DumpFramesSilent, m_frame_dump_image_counter, dump_images, imageobs,
  \* the settings as the user interface last wrote them, which
  \* UpdateActiveConfig copies into g_ActiveConfig
  g_Config

renderVars == <<rpc, rstack, call, m_last_xfb_id>>
dumpVars == <<m_last_frame_exported, m_frame_dump_frame_running,
              m_frame_dump_render_texture, m_frame_dump_readback_textures,
              mapped, m_frame_dump_thread_running, m_frame_dump_start,
              m_frame_dump_done, m_frame_dump_config, m_screenshot_request,
              m_DumpFrames, job_pending, job_buf, w_read>>
workerVars == <<wpc, w_config, frame_dump_started>>
\* configuration and presentation geometry: state no step of the swap,
\* dump or surface hand-offs writes
geomVars == <<g_ActiveConfig, vi_aspect, m_backbuffer_width,
              m_backbuffer_height, m_target_rectangle, rectobs>>
confVars == <<max_texture_size, m_efb_scale, m_target_width,
              m_target_height, confobs, m_last_xfb_width, m_last_xfb_height,
              targetobs>>
shotVars == <<m_screenshot_name, m_screenshot_completed, shotobs>>
windowVars == <<m_last_window_request, windowobs>>
\* state of the steps of Swap that are followed in specifications of
\* their own, other than geometry and configuration
createVars == <<imguiobs, createobs>>
imageVars == <<m_DumpFramesSilent, m_frame_dump_image_counter, dump_images,
               imageobs>>
extraVars == <<windowVars, createVars, imageVars, g_Config>>
hostVars == <<bBorderlessFullscreen, m_aspect_wide, aspectobs, geomVars,
              confVars, shotVars, extraVars>>
surfVars == <<m_swap_mutex, m_imgui_mutex, m_new_surface_handle,
              m_surface_changed, m_surface_resized, m_fullscreen_state,
              m_last_fullscreen_state, d3d_hwnd, d3d_fullscreen,
              m_backbuffer, hostVars>>
\* the surface and lock state, and the host state other than the
\* screenshot hand-off
swapVars == <<m_swap_mutex, m_imgui_mutex, m_new_surface_handle,
              m_surface_changed, m_surface_resized, m_fullscreen_state,
              m_last_fullscreen_state, d3d_hwnd, d3d_fullscreen,
              m_backbuffer, bBorderlessFullscreen, m_aspect_wide, aspectobs,
              geomVars, confVars, extraVars>>
uiVars == <<upc, u_arg>>
obsVars == <<bindobs, csobs, ui_backend_call>>

\* everything the thread-level hand-offs are made of
threadVars == <<renderVars, dumpVars, workerVars, uiVars, obsVars,
                m_swap_mutex, m_imgui_mutex, m_new_surface_handle,
                m_surface_changed, m_surface_resized, m_fullscreen_state,
                m_last_fullscreen_state, d3d_hwnd, d3d_fullscreen,
                m_backbuffer, bBorderlessFullscreen, shotVars>>

vars == <<renderVars, dumpVars, workerVars, surfVars, uiVars, obsVars>>

\* ------------------------------------------------------------- helpers
\* per-call observation record, reset when a render-thread call begins;
\* frames is frameCount relative to its value on entry to the call and
\* cleanup_frame the relative value handed to the texture cache's Cleanup
NewCall(kind) ==
  [kind |-> kind, entry |-> NoEntry, dedup |-> FALSE,
   exported_at_entry |-> m_last_frame_exported,
   job_at_entry |-> m_frame_dump_frame_running,
   binds |-> 0, presents |-> 0, samples |-> 0, flushes |-> 0,
   dcf |-> 0, dfd |-> 0, starts |-> 0,
   frames |-> 0, cleanups |-> 0, cleanup_frame |-> 0]

\* the record while the render thread is in no call
NoCall ==
  [kind |-> "none", entry |-> NoEntry, dedup |-> FALSE,
   exported_at_entry |-> FALSE,
   job_at_entry |-> FALSE,
   binds |-> 0, presents |-> 0, samples |-> 0, flushes |-> 0,
   dcf |-> 0, dfd |-> 0, starts |-> 0,
   frames |-> 0, cleanups |-> 0, cleanup_frame |-> 0]

Bump(f) == [call EXCEPT ![f] = @ + 1]

\* return from the current function of the render thread
Return == /\ rpc' = Head(rstack)
          /\ rstack' = Tail(rstack)

\* call function at label fn, continue at label ret afterwards
Call(fn, ret) == /\ rpc' = fn
                 /\ rstack' = <<ret>> \o rstack

\* Renderer::IsFrameDumping
IsFrameDumping == m_screenshot_request \/ m_DumpFrames

\* Swap: "xfb_entry && xfb_entry->id != m_last_xfb_id"
IsNewFrame_NoDedup(entry, last) == entry # NoEntry

IsNewFrame(entry, last) == entry # NoEntry /\ entry # last

\* DX11::Renderer::ChangeFullscreenState(enable, rate): with borderless
\* fullscreen the base class records the state and asks the host; otherwise
\* D3D::SetFullscreenState is called on the swap chain (result ok) and the
\* state is recorded only when it succeeded.
ChangeFullscreenState(enable, ok) ==
  IF bBorderlessFullscreen
    THEN m_fullscreen_state' = enable /\ d3d_fullscreen' = d3d_fullscreen
    ELSE IF ok
      THEN m_fullscreen_state' = enable /\ d3d_fullscreen' = enable
      ELSE UNCHANGED <<m_fullscreen_state, d3d_fullscreen>>

\* a new staging texture object: not the one in the other slot and not one
\* an outstanding job still points into
FreshTex(other, data) ==
  CHOOSE t \in TexIds : t # other /\ t # data

\* ------------------------------------------------------------------ Init
\* the creations of InitializeImGui, in the order of the calls
CreateSteps ==
  <<"context", "vertex_format", "vertex_shader", "pixel_shader", "pipeline",
    "font_texture">>

\* the record while InitializeImGui has not run: attempted are the
\* creations it called, failed those that returned null, result its
\* return value
NoImGui == [ran |-> FALSE, attempted |-> {}, failed |-> {}, result |-> FALSE]

\* the record of the creations in DumpCurrentFrame: null_render and
\* null_staging tell that a member function was called on a render
\* texture or a readback staging texture whose creation had returned
\* null, stopped that the render thread did not get past the call
NoCreate ==
  [null_render |-> FALSE, null_staging |-> FALSE, stopped |-> FALSE]

\* the record while the worker has run no dump step: asked tells that the
\* step put the overwrite question, answer what the user replied
NoImageDump == [asked |-> FALSE, answer |-> FALSE]

\* the record while SetWindowSize has not run; tick is flipped by every
\* call, before and fullscreen are m_last_window_request_width/height and
\* m_fullscreen_state as the call found them, computed is what
\* CalculateOutputDimensions returned, requested and arg tell the call of
\* Host_RequestRenderWindowSize, host is the size of the last request the
\* host received
NoWindowSize ==
  [ran |-> FALSE, tick |-> FALSE, before |-> <<0, 0>>,
   fullscreen |-> FALSE, computed |-> <<0, 0>>, requested |-> FALSE,
   arg |-> <<0, 0>>, host |-> <<0, 0>>]

\* the empty filename; the filenames of the SaveScreenshot calls are
\* numbered in the order of the calls
NoName == 0

Filenames == 1..MaxScreenshots

\* calls: SaveScreenshot calls made, which is the filename of the last
\* call; written: the filenames the worker wrote a screenshot to; result:
\* how the last call ended if it was a waiting one that has returned
NoShots == [calls |-> 0, written |-> {}, result |-> "none"]

\* State after Renderer::Renderer / DX11::Renderer::Renderer and
\* Renderer::Initialize: no frame presented, no dump thread, no pending
\* surface notification.
InitState ==
  /\ rpc = "idle" /\ rstack = <<>>
  /\ m_last_xfb_id = NoXfbId
  /\ call = NoCall
  /\ m_last_frame_exported = FALSE
  /\ m_frame_dump_frame_running = FALSE
  /\ m_frame_dump_render_texture = 0
  /\ m_frame_dump_readback_textures = <<NoTex, NoTex>>
  /\ mapped = {}
  /\ m_frame_dump_thread_running = FALSE
  /\ m_frame_dump_start = FALSE
  /\ m_frame_dump_done = FALSE
  /\ m_frame_dump_config = 0
  /\ m_screenshot_request = FALSE
  /\ wpc = "none" /\ w_config = 0 /\ frame_dump_started = FALSE
  /\ job_pending = FALSE /\ job_buf = "none" /\ w_read = "none"
  /\ m_swap_mutex = "free" /\ m_imgui_mutex = "free"
  /\ m_new_surface_handle = NullHandle
  /\ m_surface_changed = FALSE /\ m_surface_resized = FALSE
  /\ m_fullscreen_state = FALSE
  /\ d3d_fullscreen = FALSE
  /\ m_last_fullscreen_state = FALSE
  /\ d3d_hwnd = 1
  /\ m_backbuffer = 1
  /\ upc = "idle" /\ u_arg = 0
  /\ bindobs = [resets |-> 0, resizes |-> 0, open |-> FALSE]
  /\ csobs = [called |-> FALSE, last |-> NullHandle, fresh |-> FALSE,
              settled |-> FALSE]
  /\ ui_backend_call = FALSE
  /\ m_screenshot_name = NoName
  /\ m_screenshot_completed = FALSE
  /\ shotobs = NoShots
  /\ m_last_window_request = <<0, 0>>
  /\ windowobs = NoWindowSize
  /\ imguiobs = NoImGui
  /\ createobs = NoCreate
  /\ m_frame_dump_image_counter = 0
  /\ imageobs = NoImageDump

\* an interactive session with an empty dump directory
EmptyDumpDirectory ==
  /\ m_DumpFramesSilent = FALSE
  /\ dump_images = {}

\* the record while no Swap has run its aspect prologue
NoAspect ==
  [suggested |-> "Auto", bWii |-> FALSE, c43 |-> 0, cana |-> 0,
   before |-> FALSE, ran |-> FALSE]

\* Renderer::Renderer: "m_aspect_wide = SConfig::GetInstance().bWii &&
\* Config::Get(Config::SYSCONF_WIDESCREEN);" for a GameCube title
AspectInit ==
  /\ m_aspect_wide = FALSE
  /\ aspectobs = NoAspect

\* ratios are pairs <<numerator, denominator>> with a positive denominator
RMul(a, b) == <<a[1] * b[1], a[2] * b[2]>>
RDiv(a, b) == <<a[1] * b[2], a[2] * b[1]>>
RGeq(a, b) == a[1] * b[2] >= b[1] * a[2]
\* std::ceil of a non-negative ratio
Ceil(a) == (a[1] + a[2] - 1) \div a[2]

\* AspectToWidescreen: aspect * ((16.0f / 9.0f) / (4.0f / 3.0f))
AspectToWidescreen(aspect) == RMul(aspect, RDiv(<<16, 9>>, <<4, 3>>))

\* "x = std::ceil(x) - static_cast<int>(std::ceil(x)) % 4" without the
\* reduction
AlignToEncoder_CeilOnly(x) == Ceil(x)

\* UpdateDrawRectangle: "ensure divisibility by 4 to make it compatible
\* with all the video encoders"
AlignToEncoder(x) == Ceil(x) - (Ceil(x) % 4)

\* static_cast<int>(std::round(win / 2.0 - draw / 2.0)): halves round
\* away from zero
RoundedOffset(win, draw) ==
  LET n == win - draw IN
  IF n >= 0 THEN (n + 1) \div 2 ELSE -((1 - n) \div 2)

\* Renderer::CalculateDrawAspectRatio
CalculateDrawAspectRatio(w, h, mode, wide, vi) ==
  IF mode = "Stretch" THEN <<w, h>>
  ELSE IF mode = "AnalogWide" \/ (mode # "Analog" /\ wide)
    THEN AspectToWidescreen(vi)
  ELSE vi

\* UpdateDrawRectangle computes in float. A positive float is the pair
\* <<m, e>> with 2^23 <= m < 2^24, of value m * 2^e; every operation
\* rounds its exact result to the nearest float, ties to the even mantissa
F32Half == 2^23
F32One == 2^24

\* the float nearest to (mant + rem / (2 * half)) * 2^e
F32Nearest(mant, rem, half, e) ==
  LET up == rem > half \/ (rem = half /\ mant % 2 = 1)
  IN IF up /\ mant + 1 = F32One THEN <<F32Half, e + 1>>
     ELSE IF up THEN <<mant + 1, e>>
     ELSE <<mant, e>>

\* static_cast<float> of a positive int below 2^24
F32FromInt(n) ==
  LET Bits3(k) == IF k < 2 THEN 0 ELSE IF k < 4 THEN 1 ELSE 2
      Bits6(k) == IF k < 8 THEN Bits3(k) ELSE 3 + Bits3(k \div 8)
      Bits12(k) == IF k < 64 THEN Bits6(k) ELSE 6 + Bits6(k \div 64)
      e == IF n < 4096 THEN Bits12(n) ELSE 12 + Bits12(n \div 4096)
  IN <<n * 2^(23 - e), e - 23>>

\* a * b in float: the 48-bit product of the mantissas from 12-bit halves
\* (a product with a power of two is exact)
F32Mul(a, b) ==
  IF b[1] = F32Half THEN <<a[1], a[2] + b[2] + 23>>
  ELSE IF a[1] = F32Half THEN <<b[1], a[2] + b[2] + 23>>
  ELSE
    LET a1 == a[1] \div 4096
        a0 == a[1] % 4096
        b1 == b[1] \div 4096
        b0 == b[1] % 4096
        mid == a1 * b0 + a0 * b1
        l == (mid % 4096) * 4096 + a0 * b0
        hi == a1 * b1 + mid \div 4096 + l \div F32One
        low == l % F32One
    IN IF hi >= F32Half
         THEN F32Nearest(hi, low, F32Half, a[2] + b[2] + 24)
         ELSE F32Nearest(2 * hi + low \div F32Half, low % F32Half,
                         F32Half \div 2, a[2] + b[2] + 23)

\* a / b in float: long division of the mantissas, 7 quotient bits at a
\* time, to 24 significant bits and a remainder (a quotient by a power of
\* two is exact)
F32Div(a, b) ==
  IF b[1] = F32Half THEN <<a[1], a[2] - b[2] - 23>>
  ELSE
    LET d == b[1]
        big == a[1] >= d
        last == IF big THEN 4 ELSE 8
        x1 == (a[1] % d) * 128
        x2 == (x1 % d) * 128
        x3 == (x2 % d) * 128
        x4 == (x3 % d) * last
        q == ((IF big THEN 2097152 ELSE 0) + (x1 \div d) * 16384
              + (x2 \div d) * 128 + x3 \div d) * last + x4 \div d
    IN F32Nearest(q, 2 * (x4 % d), d,
                  IF big THEN a[2] - b[2] - 23 ELSE a[2] - b[2] - 24)

\* a >= b in float
F32Geq(a, b) == a[2] > b[2] \/ (a[2] = b[2] /\ a[1] >= b[1])

\* the value of a float below 2^24 as a ratio
F32Ratio(a) == IF a[2] >= 0 THEN <<a[1] * 2^a[2], 1>> ELSE <<a[1], 2^(-a[2])>>

\* the float of a ratio of two positive ints: a float the video interface
\* returns, or static_cast<float>(width) / static_cast<float>(height)
F32OfRatio(r) == F32Div(F32FromInt(r[1]), F32FromInt(r[2]))

\* 1.0f, 4.0f / 3.0f, 16.0f / 9.0f and the factor of AspectToWidescreen,
\* (16.0f / 9.0f) / (4.0f / 3.0f)
F32_1 == F32FromInt(1)
F32_4_3 == F32OfRatio(<<4, 3>>)
F32_16_9 == F32OfRatio(<<16, 9>>)
F32_Widescreen == F32Div(F32_16_9, F32_4_3)

\* Renderer::CalculateDrawAspectRatio as the float it returns
F32DrawAspectRatio(w, h, mode, wide, vi) ==
  IF mode = "Stretch" THEN F32OfRatio(<<w, h>>)
  ELSE IF mode = "AnalogWide" \/ (mode # "Analog" /\ wide)
    THEN F32Mul(F32OfRatio(vi), F32_Widescreen)
  ELSE F32OfRatio(vi)

\* UpdateDrawRectangle up to the fit: <<draw aspect, crop_width,
\* crop_height>>, the picture cropped to 16:9 or 4:3 when crop is on
CroppedPicture(w, h, mode, crop, wide, vi) ==
  LET ar == F32DrawAspectRatio(w, h, mode, wide, vi)
      expected == IF mode = "AnalogWide" \/ (mode # "Analog" /\ wide)
                    THEN F32_16_9 ELSE F32_4_3
      cropping == crop /\ mode # "Stretch"
      \* crop_width / crop_height >= expected_aspect, crop_height being 1
      flatter == F32Geq(ar, expected)
  IN <<ar,
       IF cropping /\ flatter THEN expected ELSE ar,
       IF cropping /\ ~flatter THEN F32Div(ar, expected) ELSE F32_1>>

\* UpdateDrawRectangle, "scale the picture to fit the rendering window":
\* the factor win_height / crop_height or win_width / crop_width
FitScale(w, h, crop_w, crop_h) ==
  IF F32Geq(F32OfRatio(<<w, h>>), F32Div(crop_w, crop_h))
    THEN F32Div(F32FromInt(h), crop_h)
    ELSE F32Div(F32FromInt(w), crop_w)

\* the size of the cropped picture taken for the draw size
DrawSize_CropSize(w, h, mode, crop, wide, vi) ==
  CHOOSE draw \in
    {<<F32Ratio(F32Mul(pic[2], scale)), F32Ratio(F32Mul(pic[3], scale))>> :
       <<pic, scale>> \in
         {<<p, FitScale(w, h, p[2], p[3])>> :
            p \in {CroppedPicture(w, h, mode, crop, wide, vi)}}} : TRUE

\* UpdateDrawRectangle up to the alignment: the draw size <<width, height>>
\* (two ratios, each the value of a float) that fits the picture, cropped
\* to 16:9 or 4:3 when crop is on, into a w x h window
DrawSize(w, h, mode, crop, wide, vi) ==
  CHOOSE draw \in
    {<<F32Ratio(F32Mul(pic[1], scale)), F32Ratio(F32Mul(F32_1, scale))>> :
       <<pic, scale>> \in
         {<<p, FitScale(w, h, p[2], p[3])>> :
            p \in {CroppedPicture(w, h, mode, crop, wide, vi)}}} : TRUE

\* the rectangle UpdateDrawRectangle stores for a draw size
TargetRectangle(w, h, draw) ==
  CHOOSE rect \in
    {[left |-> RoundedOffset(w, dw), top |-> RoundedOffset(h, dh),
      right |-> RoundedOffset(w, dw) + dw,
      bottom |-> RoundedOffset(h, dh) + dh] :
       dw \in {AlignToEncoder(draw[1])}, dh \in {AlignToEncoder(draw[2])}} :
    TRUE

AspectRatios == {<<4, 3>>, <<5, 4>>}
WindowSizes == 1..MaxWindow

\* the settings the renderer reads from g_ActiveConfig; host_config_bits
\* is ShaderHostConfig::GetCurrent().bits
DefaultConfig ==
  [aspect_mode |-> "Auto", bCrop |-> FALSE, host_config_bits |-> 0,
   stereo_mode |-> "Off", iMultisamples |-> 1, iMaxAnisotropy |-> 0,
   bForceFiltering |-> FALSE, bVSyncActive |-> FALSE, bBBoxEnable |-> FALSE,
   iEFBScale |-> 1]

\* int / int of C++: the quotient truncated toward zero
CDiv(a, b) == IF a >= 0 THEN a \div b ELSE -((-a) \div b)

Max(a, b) == IF a >= b THEN a ELSE b

\* CalculateTargetSize, "Set a scale based on the window size": the scale
\* for a target rectangle of rect_width x rect_height when the last XFB was
\* xfb_width x xfb_height
AutoIntegralScale(rect_width, rect_height, xfb_width, xfb_height) ==
  LET width == CDiv(EFB_WIDTH * rect_width, xfb_width)
      height == CDiv(EFB_HEIGHT * rect_height, xfb_height)
  IN Max(CDiv(width - 1, EFB_WIDTH) + 1, CDiv(height - 1, EFB_HEIGHT) + 1)

\* CalculateTargetSize: m_efb_scale before the clamp, for the settings cfg
\* and the target rectangle rect
UnclampedEfbScale(cfg, rect) ==
  IF cfg.iEFBScale = EFB_SCALE_AUTO_INTEGRAL
    THEN AutoIntegralScale(rect.right - rect.left, rect.bottom - rect.top,
                           m_last_xfb_width, m_last_xfb_height)
    ELSE cfg.iEFBScale

\* the scale left as it is, whatever the backend's limit
ClampToMaxTextureSize_NoClamp(scale, max_size) == scale

\* "if (max_size < EFB_WIDTH * m_efb_scale) m_efb_scale = max_size /
\* EFB_WIDTH;"
ClampToMaxTextureSize(scale, max_size) ==
  IF max_size < EFB_WIDTH * scale THEN max_size \div EFB_WIDTH ELSE scale

\* CalculateTargetSize: m_efb_scale for the settings cfg, the target
\* rectangle rect and the backend's maximum texture size
EfbScale(cfg, rect, max_size) ==
  ClampToMaxTextureSize(UnclampedEfbScale(cfg, rect), max_size)

\* CalculateTargetScale(EFB_WIDTH, EFB_HEIGHT)
CalculateTargetScale(scale) == <<EFB_WIDTH * scale, EFB_HEIGHT * scale>>

NoConfigCheck ==
  [ran |-> FALSE, old |-> DefaultConfig, old_target |-> <<0, 0>>,
   target |-> <<0, 0>>, target_changed |-> FALSE, changed_bits |-> 0,
   on_config_changed |-> FALSE, hook_bits |-> 0, set_pipeline_null |-> FALSE,
   invalidate_pipeline |-> FALSE, set_host_config |-> <<>>]

\* the comparison of CalculateTargetSize answering true whatever the sizes
TargetSizeChanged_Always(size, stored) == TRUE

\* CalculateTargetSize: "new_efb_width != m_target_width || new_efb_height
\* != m_target_height"
TargetSizeChanged(size, stored) ==
  size[1] # stored[1] \/ size[2] # stored[2]

\* what a CalculateTargetSize call reads: the scale setting, the size of
\* the target rectangle, the size of the last XFB and the backend's limit
TargetInputs(cfg, rect, max_size) ==
  [iEFBScale |-> cfg.iEFBScale,
   rect |-> <<rect.right - rect.left, rect.bottom - rect.top>>,
   xfb |-> <<m_last_xfb_width, m_last_xfb_height>>,
   max_size |-> max_size]

\* the observation of a CalculateTargetSize call that found the size
\* stored in the renderer
TargetSizeCall(cfg, rect, max_size, stored) ==
  LET size == CalculateTargetScale(EfbScale(cfg, rect, max_size)) IN
  [inputs |-> TargetInputs(cfg, rect, max_size),
   unclamped |-> UnclampedEfbScale(cfg, rect),
   before |-> stored,
   computed |-> size,
   result |-> TargetSizeChanged(size, stored)]

\* Renderer::Renderer: CalculateTargetSize() after UpdateDrawRectangle();
\* the members start as m_target_width = m_target_height = 0,
\* m_last_xfb_width = MAX_XFB_WIDTH, m_last_xfb_height = MAX_XFB_HEIGHT
ConstructedTarget(max_size) ==
  /\ max_texture_size = max_size
  /\ m_last_xfb_width = MAX_XFB_WIDTH
  /\ m_last_xfb_height = MAX_XFB_HEIGHT
  /\ m_efb_scale = EfbScale(g_ActiveConfig, m_target_rectangle, max_size)
  /\ m_target_width = CalculateTargetScale(m_efb_scale)[1]
  /\ m_target_height = CalculateTargetScale(m_efb_scale)[2]
  /\ confobs = [NoConfigCheck EXCEPT
                  !.target = CalculateTargetScale(m_efb_scale)]
  /\ targetobs = TargetSizeCall(g_ActiveConfig, m_target_rectangle, max_size,
                                <<0, 0>>)

\* Renderer::Renderer: UpdateActiveConfig(); UpdateDrawRectangle(); the
\* widescreen flag still has its initial value false at that call
ConstructedGeometry(w, h, mode, crop, vi) ==
  /\ g_ActiveConfig = [DefaultConfig EXCEPT !.aspect_mode = mode,
                                            !.bCrop = crop]
  /\ g_Config = g_ActiveConfig
  /\ vi_aspect = vi
  /\ m_backbuffer_width = w /\ m_backbuffer_height = h
  /\ \E draw \in {DrawSize(w, h, mode, crop, FALSE, vi)} :
       /\ m_target_rectangle = TargetRectangle(w, h, draw)
       /\ rectobs = [draw |-> draw, in_swap |-> FALSE,
                     aspect |-> CalculateDrawAspectRatio(w, h, mode, FALSE,
                                                         vi)]

\* a 4 x 3 backbuffer in Auto mode without crop
GeometryInit ==
  /\ ConstructedGeometry(4, 3, "Auto", FALSE, <<4, 3>>)
  /\ ConstructedTarget(MaxTextureSize_11_0)

\* frame dumping may be configured on or off at start
Init ==
  /\ InitState
  /\ EmptyDumpDirectory
  /\ AspectInit
  /\ GeometryInit
  /\ m_DumpFrames \in BOOLEAN
  /\ bBorderlessFullscreen = FALSE

\* ------------------------------------------------ render thread: Swap
\* Renderer::Swap, entry: the FlushFrameDump() call that every Swap starts
\* with.
Swap_Begin ==
  /\ rpc = "idle"
  /\ call' = NewCall("Swap")
  /\ Call("ffd", "swap_lookup")
  /\ UNCHANGED <<m_last_xfb_id, dumpVars, workerVars, surfVars, uiVars,
                 obsVars>>

\* Renderer::Swap after FlushFrameDump: with a non-zero address, width,
\* stride and height (~zero) the texture cache resolves the XFB to `entry`
\* and the dedup check follows. A new frame records the id and goes on to
\* BindBackbuffer; everything else only calls Flush().  The call record
\* notes the resolved entry and whether its id is the last presented one.
Swap_Lookup(zero, entry) ==
  /\ rpc = "swap_lookup"
  /\ LET seen == [call EXCEPT
                    !.entry = entry,
                    !.dedup = (~zero /\ entry # NoEntry
                                 /\ entry = m_last_xfb_id)]
     IN IF ~zero /\ IsNewFrame(entry, m_last_xfb_id)
          THEN /\ m_last_xfb_id' = entry
               /\ call' = seen
               /\ Call("bind", "swap_draw")
          ELSE /\ call' = [seen EXCEPT !.flushes = @ + 1]
               /\ rpc' = "ret"
               /\ UNCHANGED <<rstack, m_last_xfb_id>>
  /\ UNCHANGED <<dumpVars, workerVars, surfVars, uiVars, obsVars>>

\* Swap: UpdateDrawRectangle, RenderXFBToScreen, then the overlay and the
\* present sections.
Swap_Draw ==
  /\ rpc = "swap_draw"
  /\ Call("overlay_lock", "swap_post")
  /\ UNCHANGED <<call, m_last_xfb_id, dumpVars, workerVars, surfVars,
                 uiVars, obsVars>>

\* "auto lock = GetImGuiLock();" on the render thread
Overlay_Lock ==
  /\ rpc = "overlay_lock"
  /\ m_imgui_mutex = "free"
  /\ m_imgui_mutex' = "render"
  /\ rpc' = "overlay"
  /\ UNCHANGED <<rstack, call, m_last_xfb_id, dumpVars, workerVars, uiVars,
                 obsVars, m_swap_mutex, m_new_surface_handle,
                 m_surface_changed, m_surface_resized, m_fullscreen_state,
                 m_last_fullscreen_state, d3d_hwnd, d3d_fullscreen,
                 m_backbuffer, hostVars>>

\* variant: the overlay lock's scope extends over the present and the rest
\* of the call
Overlay_Draw_HoldsLock ==
  /\ rpc = "overlay"
  /\ rpc' = "present_lock"
  /\ UNCHANGED <<rstack, call, m_last_xfb_id, dumpVars, workerVars, uiVars,
                 obsVars, surfVars>>

\* DrawDebugText, OSD::DrawMessages, RenderImGui, end of the lock's scope
Overlay_Draw ==
  /\ rpc = "overlay"
  /\ m_imgui_mutex' = "free"
  /\ rpc' = "present_lock"
  /\ UNCHANGED <<rstack, call, m_last_xfb_id, dumpVars, workerVars, uiVars,
                 obsVars, m_swap_mutex, m_new_surface_handle,
                 m_surface_changed, m_surface_resized, m_fullscreen_state,
                 m_last_fullscreen_state, d3d_hwnd, d3d_fullscreen,
                 m_backbuffer, hostVars>>

\* variant: the present is not guarded by the swap mutex
Present_Lock_NoGuard ==
  /\ rpc = "present_lock"
  /\ rpc' = "present"
  /\ UNCHANGED <<rstack, call, m_last_xfb_id, dumpVars, workerVars, uiVars,
                 obsVars, surfVars>>

\* "std::lock_guard<std::mutex> guard(m_swap_mutex);" before presenting
Present_Lock ==
  /\ rpc = "present_lock"
  /\ m_swap_mutex = "free"
  /\ m_swap_mutex' = "render"
  /\ rpc' = "present"
  /\ UNCHANGED <<rstack, call, m_last_xfb_id, dumpVars, workerVars, uiVars,
                 obsVars, m_imgui_mutex, m_new_surface_handle,
                 m_surface_changed, m_surface_resized, m_fullscreen_state,
                 m_last_fullscreen_state, d3d_hwnd, d3d_fullscreen,
                 m_backbuffer, hostVars>>

\* PresentBackbuffer() (D3D::Present)
Present_Backbuffer ==
  /\ rpc = "present"
  /\ call' = Bump("presents")
  /\ rpc' = "present_unlock"
  /\ UNCHANGED <<rstack, m_last_xfb_id, dumpVars, workerVars, surfVars,
                 uiVars, obsVars>>

\* end of the lock_guard's scope
Present_Unlock ==
  /\ rpc = "present_unlock"
  /\ m_swap_mutex' = "free"
  /\ Return
  /\ UNCHANGED <<call, m_last_xfb_id, dumpVars, workerVars, uiVars,
                 obsVars, m_imgui_mutex, m_new_surface_handle,
                 m_surface_changed, m_surface_resized, m_fullscreen_state,
                 m_last_fullscreen_state, d3d_hwnd, d3d_fullscreen,
                 m_backbuffer, hostVars>>

\* variant: the copy always goes to slot 0, the two textures never swap
QueuedReadback_NoSwap(sz) ==
  LET old == m_frame_dump_readback_textures
      recreate == old[1].id = 0 \/ old[1].size # sz
      nid == FreshTex(old[2].id, IF m_frame_dump_frame_running
                                   THEN m_frame_dump_config ELSE 0)
  IN  [slots |-> IF recreate THEN <<[id |-> nid, size |-> sz], old[2]>>
                 ELSE old,
       freed |-> IF recreate THEN old[1].id ELSE 0,
       target |-> IF recreate THEN nid ELSE old[1].id]

\* RenderFrameDump + QueueFrameDumpReadback for a frame of dump size sz:
\* the render texture is (re)created when missing or of another size, the
\* two readback textures are swapped when slot 0 is in use, slot 0 is
\* (re)created when missing or of another size, and the GPU copy into it
\* is queued.
QueuedReadback(sz) ==
  LET old == m_frame_dump_readback_textures
      sw == IF old[1].id # 0 THEN <<old[2], old[1]>> ELSE old
      recreate == sw[1].id = 0 \/ sw[1].size # sz
      nid == FreshTex(sw[2].id, IF m_frame_dump_frame_running
                                  THEN m_frame_dump_config ELSE 0)
  IN  [slots |-> IF recreate THEN <<[id |-> nid, size |-> sz], sw[2]>>
                 ELSE sw,
       freed |-> IF recreate THEN sw[1].id ELSE 0,
       target |-> IF recreate THEN nid ELSE sw[1].id]

\* what happens to the memory behind the outstanding job's pointer when
\* texture object `freed` is destroyed and texture `target` is unmapped and
\* written by the GPU
BufAfterQueue(freed, target) ==
  IF ~m_frame_dump_frame_running \/ job_buf # "valid" THEN job_buf
  ELSE IF m_frame_dump_config = freed /\ freed # 0 THEN "freed"
  ELSE IF m_frame_dump_config = target THEN "overwritten"
  ELSE job_buf

\* Swap after presenting: SetWindowSize, the performance sample, and
\* "if (IsFrameDumping()) DumpCurrentFrame();" followed by frameCount++.
Swap_Post(sz) ==
  /\ rpc = "swap_post"
  /\ IF IsFrameDumping
       THEN LET q == QueuedReadback(sz) IN
            /\ call' = [call EXCEPT !.samples = @ + 1, !.dcf = @ + 1,
                                     !.frames = @ + 1]
            /\ m_frame_dump_render_texture' = sz
            /\ m_frame_dump_readback_textures' = q.slots
            /\ mapped' = mapped \ {q.freed, q.target}
            /\ job_buf' = BufAfterQueue(q.freed, q.target)
            /\ m_last_frame_exported' = TRUE
       ELSE /\ call' = [call EXCEPT !.samples = @ + 1, !.frames = @ + 1]
            /\ sz = 1
            /\ UNCHANGED <<m_frame_dump_render_texture,
                           m_frame_dump_readback_textures, mapped, job_buf,
                           m_last_frame_exported>>
  /\ Call("begin_imgui", "swap_tail")
  /\ UNCHANGED <<m_last_xfb_id, m_frame_dump_frame_running,
                 m_frame_dump_thread_running, m_frame_dump_start,
                 m_frame_dump_done, m_frame_dump_config,
                 m_screenshot_request, m_DumpFrames, job_pending, w_read,
                 workerVars, surfVars, uiVars, obsVars>>

\* BeginImGuiFrame: takes the ImGui lock itself
BeginImGuiFrame_Lock ==
  /\ rpc = "begin_imgui"
  /\ m_imgui_mutex = "free"
  /\ m_imgui_mutex' = "render"
  /\ rpc' = "begin_imgui_unlock"
  /\ UNCHANGED <<rstack, call, m_last_xfb_id, dumpVars, workerVars, uiVars,
                 obsVars, m_swap_mutex, m_new_surface_handle,
                 m_surface_changed, m_surface_resized, m_fullscreen_state,
                 m_last_fullscreen_state, d3d_hwnd, d3d_fullscreen,
                 m_backbuffer, hostVars>>

BeginImGuiFrame_Unlock ==
  /\ rpc = "begin_imgui_unlock"
  /\ m_imgui_mutex' = "free"
  /\ Return
  /\ UNCHANGED <<call, m_last_xfb_id, dumpVars, workerVars, uiVars,
                 obsVars, m_swap_mutex, m_new_surface_handle,
                 m_surface_changed, m_surface_resized, m_fullscreen_state,
                 m_last_fullscreen_state, d3d_hwnd, d3d_fullscreen,
                 m_backbuffer, hostVars>>

\* variant: Cleanup is handed the counter as it was before the increment
Swap_Tail_StaleCounter ==
  /\ rpc = "swap_tail"
  /\ rpc' = "ret"
  /\ call' = [call EXCEPT !.cleanups = @ + 1,
                           !.cleanup_frame = call.frames - 1]
  /\ UNCHANGED <<rstack, m_last_xfb_id, dumpVars, workerVars,
                 surfVars, uiVars, obsVars>>

\* Swap, rest of the new-frame path: "g_texture_cache->Cleanup(frameCount)",
\* CheckForConfigChanges, RestoreAPIState, update of the last XFB size.
Swap_Tail ==
  /\ rpc = "swap_tail"
  /\ rpc' = "ret"
  /\ call' = [call EXCEPT !.cleanups = @ + 1, !.cleanup_frame = call.frames]
  /\ UNCHANGED <<rstack, m_last_xfb_id, dumpVars, workerVars,
                 surfVars, uiVars, obsVars>>

\* Swap, BeginUIFrame or EndUIFrame returns to its caller; a UI frame
\* begun by BeginUIFrame stays open until EndUIFrame
Call_Return ==
  /\ rpc = "ret"
  /\ rpc' = IF call.kind = "BeginUIFrame" THEN "uiframe" ELSE "idle"
  /\ call' = NoCall
  /\ bindobs' = [resets |-> 0, resizes |-> 0, open |-> FALSE]
  /\ UNCHANGED <<rstack, m_last_xfb_id, dumpVars, workerVars, surfVars,
                 uiVars, csobs, ui_backend_call>>

\* ---------------------------------------- render thread: frame dumping
\* variant: the flush is skipped once nothing is being dumped any more
FlushFrameDump_Enter_WhileDumping ==
  /\ rpc = "ffd"
  /\ IF ~m_last_frame_exported \/ ~IsFrameDumping
       THEN Return
       ELSE Call("ffin", "ffd_map")
  /\ UNCHANGED <<call, m_last_xfb_id, dumpVars, workerVars, surfVars,
                 uiVars, obsVars>>

\* FlushFrameDump: "if (!m_last_frame_exported) return;" then
\* FinishFrameData()
FlushFrameDump_Enter ==
  /\ rpc = "ffd"
  /\ IF ~m_last_frame_exported
       THEN Return
       ELSE Call("ffin", "ffd_map")
  /\ UNCHANGED <<call, m_last_xfb_id, dumpVars, workerVars, surfVars,
                 uiVars, obsVars>>

\* variant: FinishFrameData returns without waiting for the done event
FinishFrameData_NoWait ==
  /\ rpc = "ffin"
  /\ Return
  /\ UNCHANGED <<call, m_last_xfb_id, dumpVars, workerVars, surfVars,
                 uiVars, obsVars>>

\* FinishFrameData: returns at once when no job is outstanding, otherwise
\* m_frame_dump_done.Wait() (blocks until set, then resets the event) and
\* m_frame_dump_frame_running = false.
FinishFrameData ==
  /\ rpc = "ffin"
  /\ IF m_frame_dump_frame_running
       THEN /\ m_frame_dump_done
            /\ m_frame_dump_done' = FALSE
            /\ m_frame_dump_frame_running' = FALSE
            /\ job_buf' = "none"
       ELSE UNCHANGED <<m_frame_dump_done, m_frame_dump_frame_running,
                        job_buf>>
  /\ Return
  /\ UNCHANGED <<call, m_last_xfb_id, m_last_frame_exported,
                 m_frame_dump_render_texture,
                 m_frame_dump_readback_textures, mapped,
                 m_frame_dump_thread_running, m_frame_dump_start,
                 m_frame_dump_config, m_screenshot_request, m_DumpFrames,
                 job_pending, w_read, workerVars, surfVars, uiVars,
                 obsVars>>

\* variant: the frame is handed to the worker whether or not the map
\* succeeded
FlushFrameDump_Map_Unchecked(ok) ==
  /\ rpc = "ffd_map"
  /\ IF ok
       THEN mapped' = mapped \cup {m_frame_dump_readback_textures[1].id}
       ELSE mapped' = mapped
  /\ rpc' = "dfd"
  /\ UNCHANGED <<rstack, call, m_last_xfb_id, m_last_frame_exported,
                 m_frame_dump_frame_running, m_frame_dump_render_texture,
                 m_frame_dump_readback_textures,
                 m_frame_dump_thread_running, m_frame_dump_start,
                 m_frame_dump_done, m_frame_dump_config,
                 m_screenshot_request, m_DumpFrames, job_pending, job_buf,
                 w_read, workerVars, surfVars, uiVars, obsVars>>

\* FlushFrameDump: rbtex->Flush(); if (rbtex->Map()) ...; the map may fail
FlushFrameDump_Map(ok) ==
  /\ rpc = "ffd_map"
  /\ IF ok
       THEN /\ mapped' = mapped \cup {m_frame_dump_readback_textures[1].id}
            /\ rpc' = "dfd"
       ELSE /\ mapped' = mapped
            /\ rpc' = "ffd_tail"
  /\ UNCHANGED <<rstack, call, m_last_xfb_id, m_last_frame_exported,
                 m_frame_dump_frame_running, m_frame_dump_render_texture,
                 m_frame_dump_readback_textures,
                 m_frame_dump_thread_running, m_frame_dump_start,
                 m_frame_dump_done, m_frame_dump_config,
                 m_screenshot_request, m_DumpFrames, job_pending, job_buf,
                 w_read, workerVars, surfVars, uiVars, obsVars>>

\* DumpFrameData: stores the job, starts the worker thread when it is not
\* running, signals start, marks the job outstanding.  It waits for
\* nothing but a finished thread object left to join.
DumpFrameData ==
  /\ rpc = "dfd"
  /\ m_frame_dump_config' = m_frame_dump_readback_textures[1].id
  /\ IF ~m_frame_dump_thread_running
       THEN /\ wpc \in {"none", "exited"}
            /\ m_frame_dump_thread_running' = TRUE
            /\ wpc' = "wait"
            /\ frame_dump_started' = FALSE
       ELSE UNCHANGED <<m_frame_dump_thread_running, wpc,
                        frame_dump_started>>
  /\ m_frame_dump_start' = TRUE
  /\ m_frame_dump_frame_running' = TRUE
  /\ job_pending' = TRUE
  /\ job_buf' = "valid"
  /\ call' = [call EXCEPT !.dfd = @ + 1, !.starts = @ + 1]
  /\ rpc' = "ffd_unmap"
  /\ UNCHANGED <<rstack, m_last_xfb_id, m_last_frame_exported,
                 m_frame_dump_render_texture,
                 m_frame_dump_readback_textures, mapped, m_frame_dump_done,
                 m_screenshot_request, m_DumpFrames, w_read, w_config,
                 surfVars, uiVars, obsVars>>

\* FlushFrameDump: "rbtex->Unmap();" right after DumpFrameData returned
\* (DXStagingTexture::Unmap releases the mapping the job's pointer is in)
FlushFrameDump_Unmap ==
  /\ rpc = "ffd_unmap"
  /\ LET t == m_frame_dump_readback_textures[1].id IN
       /\ mapped' = mapped \ {t}
       /\ job_buf' = IF m_frame_dump_frame_running /\ m_frame_dump_config = t
                        /\ job_buf = "valid"
                      THEN "unmapped" ELSE job_buf
  /\ rpc' = "ffd_tail"
  /\ UNCHANGED <<rstack, call, m_last_xfb_id, m_last_frame_exported,
                 m_frame_dump_frame_running, m_frame_dump_render_texture,
                 m_frame_dump_readback_textures,
                 m_frame_dump_thread_running, m_frame_dump_start,
                 m_frame_dump_done, m_frame_dump_config,
                 m_screenshot_request, m_DumpFrames, job_pending, w_read,
                 workerVars, surfVars, uiVars, obsVars>>

\* FlushFrameDump: "m_last_frame_exported = false;
\* if (!IsFrameDumping()) ShutdownFrameDumping();"
FlushFrameDump_Tail ==
  /\ rpc = "ffd_tail"
  /\ m_last_frame_exported' = FALSE
  /\ IF ~IsFrameDumping
       THEN rpc' = "sfd" /\ rstack' = rstack
       ELSE Return
  /\ UNCHANGED <<call, m_last_xfb_id, m_frame_dump_frame_running,
                 m_frame_dump_render_texture,
                 m_frame_dump_readback_textures, mapped,
                 m_frame_dump_thread_running, m_frame_dump_start,
                 m_frame_dump_done, m_frame_dump_config,
                 m_screenshot_request, m_DumpFrames, job_pending, job_buf,
                 w_read, workerVars, surfVars, uiVars, obsVars>>

\* ShutdownFrameDumping: "FlushFrameDump();"
ShutdownFrameDumping_Enter ==
  /\ rpc = "sfd"
  /\ Call("ffd", "sfd_chk")
  /\ UNCHANGED <<call, m_last_xfb_id, dumpVars, workerVars, surfVars,
                 uiVars, obsVars>>

\* ShutdownFrameDumping: "if (!m_frame_dump_thread_running.IsSet()) return;
\* FinishFrameData();"
\* variant: the thread is stopped without FinishFrameData()
ShutdownFrameDumping_Check_NoFinish ==
  /\ rpc = "sfd_chk"
  /\ IF ~m_frame_dump_thread_running
       THEN Return
       ELSE rpc' = "sfd_clear" /\ rstack' = rstack
  /\ UNCHANGED <<call, m_last_xfb_id, dumpVars, workerVars, surfVars,
                 uiVars, obsVars>>

ShutdownFrameDumping_Check ==
  /\ rpc = "sfd_chk"
  /\ IF ~m_frame_dump_thread_running
       THEN Return
       ELSE Call("ffin", "sfd_clear")
  /\ UNCHANGED <<call, m_last_xfb_id, dumpVars, workerVars, surfVars,
                 uiVars, obsVars>>

\* ShutdownFrameDumping: "m_frame_dump_thread_running.Clear();"
ShutdownFrameDumping_Clear ==
  /\ rpc = "sfd_clear"
  /\ m_frame_dump_thread_running' = FALSE
  /\ rpc' = "sfd_wake"
  /\ UNCHANGED <<rstack, call, m_last_xfb_id, m_last_frame_exported,
                 m_frame_dump_frame_running, m_frame_dump_render_texture,
                 m_frame_dump_readback_textures, mapped, m_frame_dump_start,
                 m_frame_dump_done, m_frame_dump_config,
                 m_screenshot_request, m_DumpFrames, job_pending, job_buf,
                 w_read, workerVars, surfVars, uiVars, obsVars>>

\* ShutdownFrameDumping: "m_frame_dump_start.Set();"
ShutdownFrameDumping_Wake ==
  /\ rpc = "sfd_wake"
  /\ m_frame_dump_start' = TRUE
  /\ call' = Bump("starts")
  /\ rpc' = "sfd_join"
  /\ UNCHANGED <<rstack, m_last_xfb_id, m_last_frame_exported,
                 m_frame_dump_frame_running, m_frame_dump_render_texture,
                 m_frame_dump_readback_textures, mapped,
                 m_frame_dump_thread_running, m_frame_dump_done,
                 m_frame_dump_config, m_screenshot_request, m_DumpFrames,
                 job_pending, job_buf, w_read, workerVars, surfVars, uiVars,
                 obsVars>>

\* variant: the textures are released and the call returns without joining
\* the worker
ShutdownFrameDumping_Join_NoJoin ==
  /\ rpc = "sfd_join"
  /\ m_frame_dump_render_texture' = 0
  /\ m_frame_dump_readback_textures' = <<NoTex, NoTex>>
  /\ mapped' = {}
  /\ job_buf' = IF m_frame_dump_frame_running /\ job_buf = "valid"
                  THEN "freed" ELSE job_buf
  /\ Return
  /\ UNCHANGED <<call, m_last_xfb_id, m_last_frame_exported,
                 m_frame_dump_frame_running, m_frame_dump_thread_running,
                 m_frame_dump_start, m_frame_dump_done, m_frame_dump_config,
                 m_screenshot_request, m_DumpFrames, job_pending, w_read,
                 workerVars, surfVars, uiVars, obsVars>>

\* ShutdownFrameDumping: join the worker, then release the render texture
\* and both readback textures
ShutdownFrameDumping_Join ==
  /\ rpc = "sfd_join"
  /\ wpc \in {"none", "exited"}
  /\ wpc' = "none"
  /\ m_frame_dump_render_texture' = 0
  /\ m_frame_dump_readback_textures' = <<NoTex, NoTex>>
  /\ mapped' = {}
  /\ job_buf' = IF m_frame_dump_frame_running /\ job_buf = "valid"
                  THEN "freed" ELSE job_buf
  /\ Return
  /\ UNCHANGED <<call, m_last_xfb_id, m_last_frame_exported,
                 m_frame_dump_frame_running, m_frame_dump_thread_running,
                 m_frame_dump_start, m_frame_dump_done, m_frame_dump_config,
                 m_screenshot_request, m_DumpFrames, job_pending, w_read,
                 w_config, frame_dump_started, surfVars, uiVars, obsVars>>

\* Renderer::Shutdown: "ShutdownFrameDumping();"
Shutdown_Begin ==
  /\ rpc = "idle"
  /\ call' = NewCall("Shutdown")
  /\ Call("sfd", "shutdown_fs")
  /\ UNCHANGED <<m_last_xfb_id, dumpVars, workerVars, surfVars, uiVars,
                 obsVars>>

\* Renderer::Shutdown: "if (m_fullscreen_state) ChangeFullscreenState(false,
\* 0.0f); ShutdownImGui();" -- the renderer is gone afterwards
Shutdown_End(ok) ==
  /\ rpc = "shutdown_fs"
  /\ rpc' = "dead"
  /\ IF m_fullscreen_state
       THEN ChangeFullscreenState(FALSE, ok)
       ELSE ok /\ UNCHANGED <<m_fullscreen_state, d3d_fullscreen>>
  /\ UNCHANGED <<rstack, call, m_last_xfb_id, dumpVars, workerVars, uiVars,
                 obsVars, m_swap_mutex, m_imgui_mutex, m_new_surface_handle,
                 m_surface_changed, m_surface_resized,
                 m_last_fullscreen_state, d3d_hwnd, m_backbuffer,
                 hostVars>>

\* ------------------------------------------------- frame-dump worker
\* what a read through the job's pointer yields: the frame while the
\* mapping is intact, otherwise (read of unmapped, reused or freed memory)
\* whatever the build produces
ReadOutcomes == IF job_buf = "valid" THEN {"frame"} ELSE {"frame", "garbage"}

\* RunFrameDumps: "m_frame_dump_start.Wait();
\* if (!m_frame_dump_thread_running.IsSet()) break;
\* auto config = m_frame_dump_config;"
RunFrameDumps_Wait ==
  /\ wpc = "wait"
  /\ m_frame_dump_start
  /\ m_frame_dump_start' = FALSE
  /\ IF ~m_frame_dump_thread_running
       THEN wpc' = "exited" /\ w_config' = w_config
       ELSE wpc' = "shot" /\ w_config' = m_frame_dump_config
  /\ UNCHANGED <<renderVars, w_read, m_last_frame_exported,
                 m_frame_dump_frame_running, m_frame_dump_render_texture,
                 m_frame_dump_readback_textures, mapped,
                 m_frame_dump_thread_running, m_frame_dump_done,
                 m_frame_dump_config, m_screenshot_request, m_DumpFrames,
                 job_pending, job_buf, frame_dump_started, surfVars, uiVars,
                 obsVars>>

\* variant: the screenshot request is looked at only while continuous
\* dumping is enabled
RunFrameDumps_Screenshot_WhenDumping(r) ==
  /\ wpc = "shot"
  /\ IF m_screenshot_request /\ m_DumpFrames
       THEN /\ m_screenshot_request' = FALSE
            /\ r \in ReadOutcomes
            /\ w_read' = r
       ELSE /\ r = "frame"
            /\ UNCHANGED <<m_screenshot_request, w_read>>
  /\ wpc' = "dump"
  /\ UNCHANGED <<renderVars, m_last_frame_exported,
                 m_frame_dump_frame_running, m_frame_dump_render_texture,
                 m_frame_dump_readback_textures, mapped,
                 m_frame_dump_thread_running, m_frame_dump_start,
                 m_frame_dump_done, m_frame_dump_config, m_DumpFrames,
                 job_pending, job_buf, w_config, frame_dump_started,
                 surfVars, uiVars, obsVars>>

\* RunFrameDumps: "if (m_screenshot_request.TestAndClear()) { TextureToPng
\* (config.data, ...) ... }"
RunFrameDumps_Screenshot(r) ==
  /\ wpc = "shot"
  /\ IF m_screenshot_request
       THEN /\ m_screenshot_request' = FALSE
            /\ r \in ReadOutcomes
            /\ w_read' = r
       ELSE /\ r = "frame"
            /\ UNCHANGED <<m_screenshot_request, w_read>>
  /\ wpc' = "dump"
  /\ UNCHANGED <<renderVars, m_last_frame_exported,
                 m_frame_dump_frame_running, m_frame_dump_render_texture,
                 m_frame_dump_readback_textures, mapped,
                 m_frame_dump_thread_running, m_frame_dump_start,
                 m_frame_dump_done, m_frame_dump_config, m_DumpFrames,
                 job_pending, job_buf, w_config, frame_dump_started,
                 surfVars, uiVars, obsVars>>

\* RunFrameDumps: "if (m_screenshot_request.TestAndClear())", the test of
\* RunFrameDumps_Screenshot as a step of its own: the worker does not hold
\* m_screenshot_lock yet
RunFrameDumps_TestAndClear ==
  /\ wpc = "shot"
  /\ m_screenshot_request' = FALSE
  /\ wpc' = IF m_screenshot_request THEN "png" ELSE "dump"
  /\ UNCHANGED <<renderVars, m_last_frame_exported,
                 m_frame_dump_frame_running, m_frame_dump_render_texture,
                 m_frame_dump_readback_textures, mapped,
                 m_frame_dump_thread_running, m_frame_dump_start,
                 m_frame_dump_done, m_frame_dump_config, m_DumpFrames,
                 job_pending, job_buf, w_read, w_config, frame_dump_started,
                 surfVars, uiVars, obsVars>>

\* RunFrameDumps: "{ lock_guard lk(m_screenshot_lock); TextureToPng(
\* config.data, ..., m_screenshot_name, ...); m_screenshot_name.clear();
\* m_screenshot_completed.Set(); }"
RunFrameDumps_TextureToPng(r) ==
  /\ wpc = "png"
  /\ r \in ReadOutcomes
  /\ w_read' = r
  /\ shotobs' = [shotobs EXCEPT !.written = @ \cup {m_screenshot_name}]
  /\ m_screenshot_name' = NoName
  /\ m_screenshot_completed' = TRUE
  /\ wpc' = "dump"
  /\ UNCHANGED <<renderVars, m_last_frame_exported,
                 m_frame_dump_frame_running, m_frame_dump_render_texture,
                 m_frame_dump_readback_textures, mapped,
                 m_frame_dump_thread_running, m_frame_dump_start,
                 m_frame_dump_done, m_frame_dump_config,
                 m_screenshot_request, m_DumpFrames, job_pending, job_buf,
                 w_config, frame_dump_started, swapVars, uiVars, obsVars>>

\* variant: a sink that fails to open leaves continuous dumping switched on
RunFrameDumps_Dump_KeepsDumping(open_ok, r) ==
  /\ wpc = "dump"
  /\ IF m_DumpFrames
       THEN LET started == IF frame_dump_started THEN TRUE ELSE open_ok IN
            /\ frame_dump_started => open_ok
            /\ frame_dump_started' = started
            /\ m_DumpFrames' = m_DumpFrames
            /\ IF started
                 THEN r \in ReadOutcomes /\ w_read' = r
                 ELSE r = "frame" /\ w_read' = w_read
       ELSE /\ open_ok /\ r = "frame"
            /\ UNCHANGED <<frame_dump_started, m_DumpFrames, w_read>>
  /\ wpc' = "done"
  /\ UNCHANGED <<renderVars, m_last_frame_exported,
                 m_frame_dump_frame_running, m_frame_dump_render_texture,
                 m_frame_dump_readback_textures, mapped,
                 m_frame_dump_thread_running, m_frame_dump_start,
                 m_frame_dump_done, m_frame_dump_config,
                 m_screenshot_request, job_pending, job_buf, w_config,
                 surfVars, uiVars, obsVars>>

\* RunFrameDumps: "if (SConfig::GetInstance().m_DumpFrames) { ... }":
\* the sink is opened on first use (open_ok), a failed open switches
\* dumping off, a frame is written only when the sink is open
RunFrameDumps_Dump(open_ok, r) ==
  /\ wpc = "dump"
  /\ IF m_DumpFrames
       THEN LET started == IF frame_dump_started THEN TRUE ELSE open_ok IN
            /\ frame_dump_started => open_ok
            /\ frame_dump_started' = started
            /\ m_DumpFrames' = started
            /\ IF started
                 THEN r \in ReadOutcomes /\ w_read' = r
                 ELSE r = "frame" /\ w_read' = w_read
       ELSE /\ open_ok /\ r = "frame"
            /\ UNCHANGED <<frame_dump_started, m_DumpFrames, w_read>>
  /\ wpc' = "done"
  /\ UNCHANGED <<renderVars, m_last_frame_exported,
                 m_frame_dump_frame_running, m_frame_dump_render_texture,
                 m_frame_dump_readback_textures, mapped,
                 m_frame_dump_thread_running, m_frame_dump_start,
                 m_frame_dump_done, m_frame_dump_config,
                 m_screenshot_request, job_pending, job_buf, w_config,
                 surfVars, uiVars, obsVars>>

\* variant: the overwrite question is put in silent mode too
StartFrameDumpToImage_AlwaysAsk(answer) ==
  LET asked == 1 \in dump_images
  IN [counter |-> 1, asked |-> asked, result |-> ~asked \/ answer]

\* Renderer::StartFrameDumpToImage: the counter is reset to 1; unless
\* m_DumpFramesSilent, "if (File::Exists(filename))" for the first image
\* puts the question AskYesNoT, and "No" returns false
StartFrameDumpToImage(answer) ==
  LET asked == ~m_DumpFramesSilent /\ 1 \in dump_images
  IN [counter |-> 1, asked |-> asked, result |-> ~asked \/ answer]

\* RunFrameDumps in a dump to images (bDumpFramesAsImages, or a build
\* without libav): "if (SConfig::GetInstance().m_DumpFrames) { ... }" with
\* StartFrameDumpToImage on first use and DumpFrameToImage, which writes
\* framedump_<counter>.png and advances the counter; answer is the user's
\* reply should the question be put
RunFrameDumps_DumpToImage(answer, r) ==
  /\ wpc = "dump"
  /\ IF m_DumpFrames
       THEN \E start \in
              {IF frame_dump_started
                 THEN [counter |-> m_frame_dump_image_counter,
                       asked |-> FALSE, result |-> TRUE]
                 ELSE StartFrameDumpToImage(answer)} :
              /\ start.asked \/ answer
              /\ frame_dump_started' = start.result
              /\ m_DumpFrames' = start.result
              /\ imageobs' = [asked |-> start.asked, answer |-> answer]
              /\ IF start.result
                   THEN /\ start.counter <= MaxImages
                        /\ r \in ReadOutcomes /\ w_read' = r
                        /\ dump_images' = dump_images \cup {start.counter}
                        /\ m_frame_dump_image_counter' = start.counter + 1
                   ELSE /\ r = "frame" /\ w_read' = w_read
                        /\ dump_images' = dump_images
                        /\ m_frame_dump_image_counter' = start.counter
       ELSE /\ answer /\ r = "frame"
            /\ imageobs' = NoImageDump
            /\ UNCHANGED <<frame_dump_started, m_DumpFrames, w_read,
                           dump_images, m_frame_dump_image_counter>>
  /\ wpc' = "done"
  /\ UNCHANGED <<renderVars, m_last_frame_exported,
                 m_frame_dump_frame_running, m_frame_dump_render_texture,
                 m_frame_dump_readback_textures, mapped,
                 m_frame_dump_thread_running, m_frame_dump_start,
                 m_frame_dump_done, m_frame_dump_config,
                 m_screenshot_request, job_pending, job_buf, w_config,
                 m_swap_mutex, m_imgui_mutex, m_new_surface_handle,
                 m_surface_changed, m_surface_resized, m_fullscreen_state,
                 m_last_fullscreen_state, d3d_hwnd, d3d_fullscreen,
                 m_backbuffer, bBorderlessFullscreen, m_aspect_wide,
                 aspectobs, geomVars, confVars, shotVars, windowVars,
                 createVars, m_DumpFramesSilent, g_Config, uiVars,
                 obsVars>>

\* variant: an iteration that wrote nothing goes back to the wait without
\* signalling done
RunFrameDumps_Done_Lost ==
  /\ wpc = "done"
  /\ m_frame_dump_done' = (w_read # "none")
  /\ job_pending' = FALSE
  /\ wpc' = "wait"
  /\ w_config' = 0
  /\ w_read' = "none"
  /\ UNCHANGED <<renderVars, m_last_frame_exported,
                 m_frame_dump_frame_running, m_frame_dump_render_texture,
                 m_frame_dump_readback_textures, mapped,
                 m_frame_dump_thread_running, m_frame_dump_start,
                 m_frame_dump_config, m_screenshot_request, m_DumpFrames,
                 job_buf, frame_dump_started, surfVars, uiVars, obsVars>>

\* RunFrameDumps: "m_frame_dump_done.Set();" and back to the wait
RunFrameDumps_Done ==
  /\ wpc = "done"
  /\ m_frame_dump_done' = TRUE
  /\ job_pending' = FALSE
  /\ wpc' = "wait"
  /\ w_config' = 0
  /\ w_read' = "none"
  /\ UNCHANGED <<renderVars, m_last_frame_exported,
                 m_frame_dump_frame_running, m_frame_dump_render_texture,
                 m_frame_dump_readback_textures, mapped,
                 m_frame_dump_thread_running, m_frame_dump_start,
                 m_frame_dump_config, m_screenshot_request, m_DumpFrames,
                 job_buf, frame_dump_started, surfVars, uiVars, obsVars>>

\* ------------------------------------- render thread: BindBackbuffer
\* DX11::Renderer::BindBackbuffer, CheckForSurfaceChange:
\* "if (!m_surface_changed.TestAndClear()) return;"
Bind_CheckChange ==
  /\ rpc = "bind"
  /\ call' = Bump("binds")
  /\ bindobs' = [resets |-> 0, resizes |-> 0, open |-> TRUE]
  /\ csobs' = [csobs EXCEPT !.fresh = csobs.called /\ upc \notin
                                {"cs_write", "cs_set", "cs_unlock"}]
  /\ IF m_surface_changed
       THEN m_surface_changed' = FALSE /\ rpc' = "bind_reset"
       ELSE m_surface_changed' = FALSE /\ rpc' = "bind_resize"
  /\ UNCHANGED <<rstack, m_last_xfb_id, dumpVars, workerVars, uiVars,
                 ui_backend_call, m_swap_mutex, m_imgui_mutex,
                 m_new_surface_handle, m_surface_resized,
                 m_fullscreen_state, m_last_fullscreen_state, d3d_hwnd,
                 d3d_fullscreen, m_backbuffer, hostVars>>

\* CheckForSurfaceChange: "D3D::Reset(reinterpret_cast<HWND>(
\* m_new_surface_handle));"
Bind_Reset ==
  /\ rpc = "bind_reset"
  /\ d3d_hwnd' = m_new_surface_handle
  /\ bindobs' = [bindobs EXCEPT !.resets = @ + 1]
  /\ rpc' = "bind_null"
  /\ UNCHANGED <<rstack, call, m_last_xfb_id, dumpVars, workerVars, uiVars,
                 csobs, ui_backend_call, m_swap_mutex, m_imgui_mutex,
                 m_new_surface_handle, m_surface_changed, m_surface_resized,
                 m_fullscreen_state, m_last_fullscreen_state,
                 d3d_fullscreen, m_backbuffer, hostVars>>

\* DX11::Renderer::UpdateBackbufferSize: the swap chain's size (at least
\* 1), or 1 without a swap chain
UpdateBackbufferSize(sz) ==
  m_backbuffer' = IF d3d_hwnd # NullHandle THEN sz ELSE 1

\* CheckForSurfaceChange: "m_new_surface_handle = nullptr;
\* UpdateBackbufferSize();"
Bind_ClearHandle(sz) ==
  /\ rpc = "bind_null"
  /\ m_new_surface_handle' = NullHandle
  /\ UpdateBackbufferSize(sz)
  /\ d3d_hwnd = NullHandle => sz = 1
  /\ rpc' = "bind_resize"
  /\ UNCHANGED <<rstack, call, m_last_xfb_id, dumpVars, workerVars, uiVars,
                 obsVars, m_swap_mutex, m_imgui_mutex, m_surface_changed,
                 m_surface_resized, m_fullscreen_state,
                 m_last_fullscreen_state, d3d_hwnd, d3d_fullscreen,
                 hostVars>>

\* variant: only the resize flag is looked at
Bind_CheckResize_FlagOnly(sz) ==
  /\ rpc = "bind_resize"
  /\ IF m_surface_resized
       THEN /\ m_last_fullscreen_state' = d3d_fullscreen
            /\ UpdateBackbufferSize(sz)
            /\ d3d_hwnd = NullHandle => sz = 1
            /\ bindobs' = [bindobs EXCEPT !.resizes = @ + 1,
                                         !.open = FALSE]
       ELSE /\ sz = 1
            /\ bindobs' = [bindobs EXCEPT !.open = FALSE]
            /\ UNCHANGED <<m_last_fullscreen_state, m_backbuffer>>
  /\ m_surface_resized' = FALSE
  /\ csobs' = [csobs EXCEPT !.settled = @ \/ csobs.fresh]
  /\ Return
  /\ UNCHANGED <<call, m_last_xfb_id, dumpVars, workerVars, uiVars,
                 ui_backend_call, m_swap_mutex, m_imgui_mutex,
                 m_new_surface_handle, m_surface_changed,
                 m_fullscreen_state, d3d_hwnd, d3d_fullscreen,
                 hostVars>>

\* CheckForSurfaceResize (exclusive fullscreen is polled, the resize flag
\* is tested and cleared, either triggers ResizeSwapChain and
\* UpdateBackbufferSize), then SetAndClearFramebuffer
Bind_CheckResize(sz) ==
  /\ rpc = "bind_resize"
  /\ LET fullscreen_state == d3d_fullscreen
         exclusive_fullscreen_changed ==
           fullscreen_state # m_last_fullscreen_state
     IN  IF m_surface_resized \/ exclusive_fullscreen_changed
           THEN /\ m_last_fullscreen_state' = fullscreen_state
                /\ UpdateBackbufferSize(sz)
                /\ d3d_hwnd = NullHandle => sz = 1
                /\ bindobs' = [bindobs EXCEPT !.resizes = @ + 1,
                                             !.open = FALSE]
           ELSE /\ sz = 1
                /\ bindobs' = [bindobs EXCEPT !.open = FALSE]
                /\ UNCHANGED <<m_last_fullscreen_state, m_backbuffer>>
  /\ m_surface_resized' = FALSE
  /\ csobs' = [csobs EXCEPT !.settled = @ \/ csobs.fresh]
  /\ Return
  /\ UNCHANGED <<call, m_last_xfb_id, dumpVars, workerVars, uiVars,
                 ui_backend_call, m_swap_mutex, m_imgui_mutex,
                 m_new_surface_handle, m_surface_changed,
                 m_fullscreen_state, d3d_hwnd, d3d_fullscreen,
                 hostVars>>

\* ------------------------------- render thread: BeginUIFrame/EndUIFrame
\* Renderer::BeginUIFrame: ResetAPIState, BindBackbuffer
BeginUIFrame ==
  /\ rpc = "idle"
  /\ call' = NewCall("BeginUIFrame")
  /\ Call("bind", "ret")
  /\ UNCHANGED <<m_last_xfb_id, dumpVars, workerVars, surfVars, uiVars,
                 obsVars>>

\* Renderer::EndUIFrame: RenderImGui under the ImGui lock and
\* PresentBackbuffer under the swap mutex
EndUIFrame_Begin ==
  /\ rpc = "uiframe"
  /\ call' = NewCall("EndUIFrame")
  /\ Call("overlay_lock", "uiframe_post")
  /\ UNCHANGED <<m_last_xfb_id, dumpVars, workerVars, surfVars, uiVars,
                 obsVars>>

\* Renderer::EndUIFrame: BeginImGuiFrame, RestoreAPIState
EndUIFrame_Post ==
  /\ rpc = "uiframe_post"
  /\ Call("begin_imgui", "ret")
  /\ UNCHANGED <<call, m_last_xfb_id, dumpVars, workerVars, surfVars,
                 uiVars, obsVars>>

\* ---------------------------------------------------------- UI thread
\* Renderer::ChangeSurface(h): "std::lock_guard<std::mutex> lock(
\* m_swap_mutex);"
ChangeSurface_Lock(h) ==
  /\ upc = "idle" /\ rpc # "dead"
  /\ m_swap_mutex = "free"
  /\ m_swap_mutex' = "ui"
  /\ upc' = "cs_write" /\ u_arg' = h
  /\ csobs' = [csobs EXCEPT !.called = TRUE, !.fresh = FALSE,
                            !.settled = FALSE]
  /\ UNCHANGED <<renderVars, dumpVars, workerVars, bindobs,
                 ui_backend_call, m_imgui_mutex, m_new_surface_handle,
                 m_surface_changed, m_surface_resized, m_fullscreen_state,
                 m_last_fullscreen_state, d3d_hwnd, d3d_fullscreen,
                 m_backbuffer, hostVars>>

\* variant: ChangeSurface resets the backend to the new surface itself
ChangeSurface_Write_Eager ==
  /\ upc = "cs_write"
  /\ m_new_surface_handle' = u_arg
  /\ d3d_hwnd' = u_arg
  /\ upc' = "cs_set"
  /\ UNCHANGED <<renderVars, dumpVars, workerVars, obsVars, u_arg,
                 m_swap_mutex, m_imgui_mutex, m_surface_changed,
                 m_surface_resized, m_fullscreen_state,
                 m_last_fullscreen_state, d3d_fullscreen,
                 m_backbuffer, hostVars>>

\* ChangeSurface: "m_new_surface_handle = new_surface_handle;"
ChangeSurface_Write ==
  /\ upc = "cs_write"
  /\ m_new_surface_handle' = u_arg
  /\ upc' = "cs_set"
  /\ UNCHANGED <<renderVars, dumpVars, workerVars, obsVars, u_arg,
                 m_swap_mutex, m_imgui_mutex, m_surface_changed,
                 m_surface_resized, m_fullscreen_state,
                 m_last_fullscreen_state, d3d_hwnd, d3d_fullscreen,
                 m_backbuffer, hostVars>>

\* ChangeSurface: "m_surface_changed.Set();"
ChangeSurface_Set ==
  /\ upc = "cs_set"
  /\ m_surface_changed' = TRUE
  /\ upc' = "cs_unlock"
  /\ UNCHANGED <<renderVars, dumpVars, workerVars, obsVars, u_arg,
                 m_swap_mutex, m_imgui_mutex, m_new_surface_handle,
                 m_surface_resized, m_fullscreen_state,
                 m_last_fullscreen_state, d3d_hwnd, d3d_fullscreen,
                 m_backbuffer, hostVars>>

\* ChangeSurface: end of the lock's scope, return
ChangeSurface_Unlock ==
  /\ upc = "cs_unlock"
  /\ m_swap_mutex' = "free"
  /\ upc' = "idle"
  /\ csobs' = [csobs EXCEPT !.last = u_arg]
  /\ u_arg' = 0
  /\ UNCHANGED <<renderVars, dumpVars, workerVars, bindobs,
                 ui_backend_call, m_imgui_mutex, m_new_surface_handle,
                 m_surface_changed, m_surface_resized, m_fullscreen_state,
                 m_last_fullscreen_state, d3d_hwnd, d3d_fullscreen,
                 m_backbuffer, hostVars>>

\* Renderer::ResizeSurface: lock m_swap_mutex
ResizeSurface_Lock ==
  /\ upc = "idle" /\ rpc # "dead"
  /\ m_swap_mutex = "free"
  /\ m_swap_mutex' = "ui"
  /\ upc' = "rs_set"
  /\ UNCHANGED <<renderVars, dumpVars, workerVars, obsVars, u_arg,
                 m_imgui_mutex, m_new_surface_handle, m_surface_changed,
                 m_surface_resized, m_fullscreen_state,
                 m_last_fullscreen_state, d3d_hwnd, d3d_fullscreen,
                 m_backbuffer, hostVars>>

\* ResizeSurface: "m_surface_resized.Set();"
ResizeSurface_Set ==
  /\ upc = "rs_set"
  /\ m_surface_resized' = TRUE
  /\ upc' = "rs_unlock"
  /\ UNCHANGED <<renderVars, dumpVars, workerVars, obsVars, u_arg,
                 m_swap_mutex, m_imgui_mutex, m_new_surface_handle,
                 m_surface_changed, m_fullscreen_state,
                 m_last_fullscreen_state, d3d_hwnd, d3d_fullscreen,
                 m_backbuffer, hostVars>>

\* ResizeSurface: unlock, return
ResizeSurface_Unlock ==
  /\ upc = "rs_unlock"
  /\ m_swap_mutex' = "free"
  /\ upc' = "idle"
  /\ UNCHANGED <<renderVars, dumpVars, workerVars, obsVars, u_arg,
                 m_imgui_mutex, m_new_surface_handle, m_surface_changed,
                 m_surface_resized, m_fullscreen_state,
                 m_last_fullscreen_state, d3d_hwnd, d3d_fullscreen,
                 m_backbuffer, hostVars>>

\* Renderer::SetFullscreen(enable), "Called from the UI thread":
\* "if (enable_fullscreen == m_fullscreen_state) return;
\* ChangeFullscreenState(enable_fullscreen, ...);" -- virtual, so the D3D
\* override runs on the calling thread and, unless borderless fullscreen is
\* configured, calls D3D::SetFullscreenState on the swap chain.
SetFullscreen(enable, ok) ==
  /\ upc = "idle" /\ rpc # "dead"
  /\ enable # m_fullscreen_state
  /\ ChangeFullscreenState(enable, ok)
  /\ bBorderlessFullscreen => ok
  /\ ui_backend_call' = (ui_backend_call \/ ~bBorderlessFullscreen)
  /\ UNCHANGED <<renderVars, dumpVars, workerVars, uiVars, bindobs, csobs,
                 m_swap_mutex, m_imgui_mutex, m_new_surface_handle,
                 m_surface_changed, m_surface_resized,
                 m_last_fullscreen_state, d3d_hwnd, m_backbuffer,
                 hostVars>>

\* the input write without taking the overlay lock first
ImGuiInput_Lock_NoLock ==
  /\ upc = "idle" /\ rpc # "dead"
  /\ m_imgui_mutex' = "ui"
  /\ upc' = "imgui_unlock"
  /\ UNCHANGED <<renderVars, dumpVars, workerVars, obsVars, u_arg,
                 m_swap_mutex, m_new_surface_handle, m_surface_changed,
                 m_surface_resized, m_fullscreen_state,
                 m_last_fullscreen_state, d3d_hwnd, d3d_fullscreen,
                 m_backbuffer, hostVars>>

\* RenderWidget::PassEventToImGui / SetImGuiKeyMap: "auto lock =
\* g_renderer->GetImGuiLock();" and the write to the ImGui input state
ImGuiInput_Lock ==
  /\ upc = "idle" /\ rpc # "dead"
  /\ m_imgui_mutex = "free"
  /\ m_imgui_mutex' = "ui"
  /\ upc' = "imgui_unlock"
  /\ UNCHANGED <<renderVars, dumpVars, workerVars, obsVars, u_arg,
                 m_swap_mutex, m_new_surface_handle, m_surface_changed,
                 m_surface_resized, m_fullscreen_state,
                 m_last_fullscreen_state, d3d_hwnd, d3d_fullscreen,
                 m_backbuffer, hostVars>>

ImGuiInput_Unlock ==
  /\ upc = "imgui_unlock"
  /\ m_imgui_mutex' = "free"
  /\ upc' = "idle"
  /\ UNCHANGED <<renderVars, dumpVars, workerVars, obsVars, u_arg,
                 m_swap_mutex, m_new_surface_handle, m_surface_changed,
                 m_surface_resized, m_fullscreen_state,
                 m_last_fullscreen_state, d3d_hwnd, d3d_fullscreen,
                 m_backbuffer, hostVars>>

\* Renderer::SaveScreenshot(filename, false): the request is recorded
\* under m_screenshot_lock
SaveScreenshot ==
  /\ upc = "idle" /\ rpc # "dead"
  /\ ~m_screenshot_request
  /\ m_screenshot_request' = TRUE
  /\ UNCHANGED <<renderVars, m_last_frame_exported,
                 m_frame_dump_frame_running, m_frame_dump_render_texture,
                 m_frame_dump_readback_textures, mapped,
                 m_frame_dump_thread_running, m_frame_dump_start,
                 m_frame_dump_done, m_frame_dump_config, m_DumpFrames,
                 job_pending, job_buf, w_read, workerVars, surfVars, uiVars,
                 obsVars>>

\* Renderer::SaveScreenshot(filename, wait_for_completion): "{ lock_guard
\* lk(m_screenshot_lock); m_screenshot_name = filename;
\* m_screenshot_request.Set(); }", then the caller waits or returns
SaveScreenshot_Call(filename, wait) ==
  /\ upc = "idle" /\ rpc # "dead"
  /\ filename = shotobs.calls + 1
  /\ m_screenshot_name' = filename
  /\ m_screenshot_request' = TRUE
  /\ shotobs' = [shotobs EXCEPT !.calls = filename, !.result = "none"]
  /\ upc' = IF wait THEN "shot_wait" ELSE "idle"
  /\ UNCHANGED <<renderVars, m_last_frame_exported,
                 m_frame_dump_frame_running, m_frame_dump_render_texture,
                 m_frame_dump_readback_textures, mapped,
                 m_frame_dump_thread_running, m_frame_dump_start,
                 m_frame_dump_done, m_frame_dump_config, m_DumpFrames,
                 job_pending, job_buf, w_read, workerVars, swapVars, u_arg,
                 obsVars, m_screenshot_completed>>

\* variant: a wait that times out withdraws the request
SaveScreenshot_WaitFor_Cancel ==
  /\ upc = "shot_wait"
  /\ IF m_screenshot_completed
       THEN /\ m_screenshot_completed' = FALSE
            /\ shotobs' = [shotobs EXCEPT !.result = "completed"]
            /\ UNCHANGED <<m_screenshot_request, m_screenshot_name>>
       ELSE /\ shotobs' = [shotobs EXCEPT !.result = "timeout"]
            /\ m_screenshot_request' = FALSE
            /\ m_screenshot_name' = NoName
            /\ UNCHANGED m_screenshot_completed
  /\ upc' = "idle"
  /\ UNCHANGED <<renderVars, m_last_frame_exported,
                 m_frame_dump_frame_running, m_frame_dump_render_texture,
                 m_frame_dump_readback_textures, mapped,
                 m_frame_dump_thread_running, m_frame_dump_start,
                 m_frame_dump_done, m_frame_dump_config, m_DumpFrames,
                 job_pending, job_buf, w_read, workerVars, swapVars, u_arg,
                 obsVars>>

\* Renderer::SaveScreenshot: "m_screenshot_completed.WaitFor(std::chrono::
\* seconds(2));": the wait ends at once, taking the signal, when the event
\* is set, and ends without it when the two seconds run out first
SaveScreenshot_WaitFor ==
  /\ upc = "shot_wait"
  /\ IF m_screenshot_completed
       THEN /\ m_screenshot_completed' = FALSE
            /\ shotobs' = [shotobs EXCEPT !.result = "completed"]
       ELSE /\ shotobs' = [shotobs EXCEPT !.result = "timeout"]
            /\ UNCHANGED m_screenshot_completed
  /\ upc' = "idle"
  /\ UNCHANGED <<renderVars, dumpVars, workerVars, swapVars, u_arg, obsVars,
                 m_screenshot_name>>

\* the user switches continuous frame dumping on or off
\* (SConfig::GetInstance().m_DumpFrames)
SetDumpFrames(b) ==
  /\ upc = "idle" /\ rpc # "dead"
  /\ b # m_DumpFrames
  /\ m_DumpFrames' = b
  /\ UNCHANGED <<renderVars, m_last_frame_exported,
                 m_frame_dump_frame_running, m_frame_dump_render_texture,
                 m_frame_dump_readback_textures, mapped,
                 m_frame_dump_thread_running, m_frame_dump_start,
                 m_frame_dump_done, m_frame_dump_config,
                 m_screenshot_request, job_pending, job_buf, w_read,
                 workerVars, surfVars, uiVars, obsVars>>

\* the window system toggles exclusive fullscreen outside the
\* application's control (D3D::GetFullscreenState changes)
WindowSystem_ToggleFullscreen ==
  /\ rpc # "dead"
  /\ ~bBorderlessFullscreen
  /\ d3d_fullscreen' = ~d3d_fullscreen
  /\ UNCHANGED <<renderVars, dumpVars, workerVars, uiVars, obsVars,
                 m_swap_mutex, m_imgui_mutex, m_new_surface_handle,
                 m_surface_changed, m_surface_resized, m_fullscreen_state,
                 m_last_fullscreen_state, d3d_hwnd, m_backbuffer,
                 hostVars>>

\* ------------------------------------------- Swap: widescreen detection
AspectModes == {"Auto", "Analog", "AnalogWide", "Stretch"}
FlushCounts == 0..MaxFlushCount

\* "count > 0.75 * flush_total" (size_t against double; exact for counts
\* below 2^53, so it is the integer comparison 4 * count > 3 * total)
OverThreshold_Inclusive(count, total) == 4 * count >= 3 * total

OverThreshold(count, total) == 4 * count > 3 * total

\* Renderer::Swap, first statements: the widescreen state for the frame.
\* suggested is g_ActiveConfig.suggested_aspect_mode, sysconf the Wii
\* system setting, c43 and cana the flush counts the vertex manager holds.
Swap_Aspect(suggested, bWii, sysconf, c43, cana) ==
  /\ m_aspect_wide' =
       IF suggested \in {"Analog", "AnalogWide"}
         THEN suggested = "AnalogWide"
       ELSE IF bWii THEN sysconf
       ELSE IF m_aspect_wide
         THEN ~OverThreshold(c43, c43 + cana)
         ELSE OverThreshold(cana, c43 + cana)
  /\ aspectobs' = [suggested |-> suggested, bWii |-> bWii, c43 |-> c43,
                   cana |-> cana, before |-> m_aspect_wide, ran |-> TRUE]
  /\ UNCHANGED <<threadVars, geomVars, confVars, extraVars>>

\* -------------------------------------- Swap: configuration check
StereoModes == {"Off", "SBS"}
Multisamples == {1, 4}
Anisotropies == {0, 1}
HostConfigBits == {0, 1}
EFBScales == {EFB_SCALE_AUTO_INTEGRAL, 1, 4}
TrackedFields ==
  {"host_config_bits", "stereo_mode", "iMultisamples", "iMaxAnisotropy",
   "bForceFiltering", "bVSyncActive", "bBBoxEnable", "iEFBScale"}

\* the sets of at most MaxConfigChanges tracked settings
EditedFields ==
  {edited \in SUBSET TrackedFields : Cardinality(edited) <= MaxConfigChanges}

\* the other value of a two-valued setting
Other(domain, v) == CHOOSE x \in domain : x # v

\* the settings UpdateActiveConfig copies into g_ActiveConfig when the
\* settings in edited were edited since the last copy, the scale to scale
UpdatedConfig(cfg, edited, scale) ==
  LET pick(f, domain) == IF f \in edited THEN Other(domain, cfg[f])
                                         ELSE cfg[f]
  IN [aspect_mode |-> cfg.aspect_mode,
      bCrop |-> cfg.bCrop,
      host_config_bits |-> pick("host_config_bits", HostConfigBits),
      stereo_mode |-> pick("stereo_mode", StereoModes),
      iMultisamples |-> pick("iMultisamples", Multisamples),
      iMaxAnisotropy |-> pick("iMaxAnisotropy", Anisotropies),
      bForceFiltering |-> pick("bForceFiltering", BOOLEAN),
      bVSyncActive |-> pick("bVSyncActive", BOOLEAN),
      bBBoxEnable |-> pick("bBBoxEnable", BOOLEAN),
      iEFBScale |-> scale]

\* "changed_bits |= bit" guarded by a condition
BitIf(cond, bit) == IF cond THEN bit ELSE 0

HasBit(mask, bit) == (mask \div bit) % 2 = 1

\* the mask without the anisotropy comparison
ChangedBits_NoAnisotropy(old, new, target_changed) ==
    BitIf(old.host_config_bits # new.host_config_bits,
          CONFIG_CHANGE_BIT_HOST_CONFIG)
  + BitIf(old.stereo_mode # new.stereo_mode, CONFIG_CHANGE_BIT_STEREO_MODE)
  + BitIf(old.iMultisamples # new.iMultisamples,
          CONFIG_CHANGE_BIT_MULTISAMPLES)
  + BitIf(old.bForceFiltering # new.bForceFiltering,
          CONFIG_CHANGE_BIT_FORCE_TEXTURE_FILTERING)
  + BitIf(old.bVSyncActive # new.bVSyncActive, CONFIG_CHANGE_BIT_VSYNC)
  + BitIf(old.bBBoxEnable # new.bBBoxEnable, CONFIG_CHANGE_BIT_BBOX)
  + BitIf(target_changed, CONFIG_CHANGE_BIT_TARGET_SIZE)

\* CheckForConfigChanges: changed_bits from the snapshot old, the updated
\* settings new and the result of CalculateTargetSize (the bits are
\* distinct, so or-ing them is adding them)
ChangedBits(old, new, target_changed) ==
    BitIf(old.host_config_bits # new.host_config_bits,
          CONFIG_CHANGE_BIT_HOST_CONFIG)
  + BitIf(old.stereo_mode # new.stereo_mode, CONFIG_CHANGE_BIT_STEREO_MODE)
  + BitIf(old.iMultisamples # new.iMultisamples,
          CONFIG_CHANGE_BIT_MULTISAMPLES)
  + BitIf(old.iMaxAnisotropy # new.iMaxAnisotropy,
          CONFIG_CHANGE_BIT_ANISOTROPY)
  + BitIf(old.bForceFiltering # new.bForceFiltering,
          CONFIG_CHANGE_BIT_FORCE_TEXTURE_FILTERING)
  + BitIf(old.bVSyncActive # new.bVSyncActive, CONFIG_CHANGE_BIT_VSYNC)
  + BitIf(old.bBBoxEnable # new.bBBoxEnable, CONFIG_CHANGE_BIT_BBOX)
  + BitIf(target_changed, CONFIG_CHANGE_BIT_TARGET_SIZE)

\* the reload condition with the multisample bit left out
ReloadsShaders_HostConfigOnly(changed_bits) ==
  HasBit(changed_bits, CONFIG_CHANGE_BIT_HOST_CONFIG)

\* "changed_bits & (CONFIG_CHANGE_BIT_HOST_CONFIG |
\* CONFIG_CHANGE_BIT_MULTISAMPLES)"
ReloadsShaders(changed_bits) ==
  \/ HasBit(changed_bits, CONFIG_CHANGE_BIT_HOST_CONFIG)
  \/ HasBit(changed_bits, CONFIG_CHANGE_BIT_MULTISAMPLES)

\* Renderer::CheckForConfigChanges, called at the end of a presented
\* Swap, as far as the configuration, the render target and the backend
\* hook go; new is what UpdateActiveConfig copies in. CalculateTargetSize
\* stores the scale and, when the size differs, the new target size.
\* OnConfigChanged of the D3D backend has an empty body.
CheckForConfigChanges(new) ==
  \E unclamped \in {UnclampedEfbScale(new, m_target_rectangle)} :
  \E scale \in {ClampToMaxTextureSize(unclamped, max_texture_size)} :
  \E size \in {CalculateTargetScale(scale)} :
  \E target_changed \in
       {TargetSizeChanged(size, <<m_target_width, m_target_height>>)} :
  \E changed_bits \in {ChangedBits(g_ActiveConfig, new, target_changed)} :
  \E reload \in {changed_bits # 0 /\ ReloadsShaders(changed_bits)} :
     /\ g_ActiveConfig' = new
     /\ m_efb_scale' = scale
     /\ m_target_width' = IF target_changed THEN size[1] ELSE m_target_width
     /\ m_target_height' = IF target_changed THEN size[2]
                                             ELSE m_target_height
     /\ targetobs' = [inputs |-> TargetInputs(new, m_target_rectangle,
                                               max_texture_size),
                      unclamped |-> unclamped,
                      before |-> <<m_target_width, m_target_height>>,
                      computed |-> size,
                      result |-> target_changed]
     /\ confobs' = [ran |-> TRUE, old |-> g_ActiveConfig,
                    old_target |-> <<m_target_width, m_target_height>>,
                    target |-> size,
                    target_changed |-> target_changed,
                    changed_bits |-> changed_bits,
                    on_config_changed |-> changed_bits # 0,
                    hook_bits |-> changed_bits,
                    set_pipeline_null |-> reload,
                    invalidate_pipeline |-> reload,
                    set_host_config |->
                      IF reload
                        THEN <<new.host_config_bits, new.iMultisamples>>
                        ELSE <<>>]
     /\ UNCHANGED <<m_aspect_wide, aspectobs, vi_aspect,
                    m_backbuffer_width, m_backbuffer_height,
                    m_target_rectangle, rectobs, max_texture_size,
                    m_last_xfb_width, m_last_xfb_height, windowVars,
                    createVars, imageVars>>

\* the CheckForConfigChanges() call of a presented Swap taken as a step
\* of its own, together with the edits of the settings since the last
\* one: new is what the user interface has made of g_Config
Swap_CheckForConfigChanges(new) ==
  /\ g_Config' = new
  /\ CheckForConfigChanges(new)
  /\ UNCHANGED threadVars

\* Swap, presented path, after the configuration check: "Update our last
\* xfb values" from the stride and the height of the frame presented
Swap_UpdateLastXfb(fbStride, fbHeight) ==
  /\ m_last_xfb_width' = IF fbStride < 1 \/ fbStride > MAX_XFB_WIDTH
                           THEN MAX_XFB_WIDTH ELSE fbStride
  /\ m_last_xfb_height' = IF fbHeight < 1 \/ fbHeight > MAX_XFB_HEIGHT
                            THEN MAX_XFB_HEIGHT ELSE fbHeight
  /\ UNCHANGED <<threadVars, m_aspect_wide, aspectobs, geomVars,
                 max_texture_size, m_efb_scale, m_target_width,
                 m_target_height, confobs, targetobs, extraVars>>

\* ------------------------------------------ Swap: presentation geometry
\* Swap, presented path: BindBackbuffer leaves a w x h backbuffer
\* (CheckForSurfaceResize, UpdateBackbufferSize) and UpdateDrawRectangle
\* follows on the same thread
Swap_UpdateDrawRectangle(w, h) ==
  \E draw \in {DrawSize(w, h, g_ActiveConfig.aspect_mode,
                        g_ActiveConfig.bCrop, m_aspect_wide, vi_aspect)} :
     /\ m_backbuffer_width' = w
     /\ m_backbuffer_height' = h
     /\ m_target_rectangle' = TargetRectangle(w, h, draw)
     /\ rectobs' = [draw |-> draw, in_swap |-> TRUE,
                    aspect |-> CalculateDrawAspectRatio(
                                 w, h, g_ActiveConfig.aspect_mode,
                                 m_aspect_wide, vi_aspect)]
     /\ UNCHANGED <<threadVars, m_aspect_wide, aspectobs, g_ActiveConfig,
                    vi_aspect, confVars, extraVars>>

\* --------------------------------------------------- Swap: window size
\* the sizes of the XFB texture a presented Swap is given
XfbTextureSizes ==
  {<<w, h>> : w \in {0, EFB_WIDTH, 2 * EFB_WIDTH},
              h \in {EFB_HEIGHT, 2 * EFB_HEIGHT}}

\* ScaleToDisplayAspectRatio: the pair <<scaled_width, scaled_height>>
ScaleToDisplayAspectRatio(width, height, draw_aspect) ==
  IF RGeq(<<width, height>>, draw_aspect)
    THEN <<(<<width, 1>>), RDiv(<<width, 1>>, draw_aspect)>>
    ELSE <<RMul(<<height, 1>>, draw_aspect), (<<height, 1>>)>>

\* CalculateOutputDimensions(width, height)
CalculateOutputDimensions(width, height) ==
  LET mode == g_ActiveConfig.aspect_mode
      scaled == ScaleToDisplayAspectRatio(
                  Max(width, 1), Max(height, 1),
                  CalculateDrawAspectRatio(m_backbuffer_width,
                                           m_backbuffer_height, mode,
                                           m_aspect_wide, vi_aspect))
      expected_aspect == IF mode = "AnalogWide"
                              \/ (mode # "Analog" /\ m_aspect_wide)
                           THEN <<16, 9>> ELSE <<4, 3>>
      \* current_aspect > expected_aspect
      wider == ~RGeq(expected_aspect, RDiv(scaled[1], scaled[2]))
      cropped == IF ~g_ActiveConfig.bCrop THEN scaled
                 ELSE IF wider
                   THEN <<RMul(scaled[2], expected_aspect), scaled[2]>>
                 ELSE <<scaled[1], RDiv(scaled[1], expected_aspect)>>
  IN <<AlignToEncoder(cropped[1]), AlignToEncoder(cropped[2])>>

\* variant: the size is recorded only when the request is sent
Swap_SetWindowSize_RecordWhenSent(width, height) ==
  \E size \in {CalculateOutputDimensions(width, height)} :
  \E differs \in {size # m_last_window_request} :
  \E request \in {differs /\ ~m_fullscreen_state} :
     /\ m_last_window_request' = IF request THEN size
                                            ELSE m_last_window_request
     /\ windowobs' = [ran |-> TRUE, tick |-> ~windowobs.tick,
                      before |-> m_last_window_request,
                      fullscreen |-> m_fullscreen_state,
                      computed |-> size,
                      requested |-> request,
                      arg |-> IF request THEN size ELSE <<0, 0>>,
                      host |-> IF request THEN size ELSE windowobs.host]
     /\ UNCHANGED <<threadVars, m_aspect_wide, aspectobs, geomVars,
                    confVars, createVars, imageVars, g_Config>>

\* variant: the request is sent whatever the fullscreen state
Swap_SetWindowSize_AlsoFullscreen(width, height) ==
  \E size \in {CalculateOutputDimensions(width, height)} :
  \E differs \in {size # m_last_window_request} :
     /\ m_last_window_request' = size
     /\ windowobs' = [ran |-> TRUE, tick |-> ~windowobs.tick,
                      before |-> m_last_window_request,
                      fullscreen |-> m_fullscreen_state,
                      computed |-> size,
                      requested |-> differs,
                      arg |-> IF differs THEN size ELSE <<0, 0>>,
                      host |-> IF differs THEN size ELSE windowobs.host]
     /\ UNCHANGED <<threadVars, m_aspect_wide, aspectobs, geomVars,
                    confVars, createVars, imageVars, g_Config>>

\* Swap, presented path: "SetWindowSize(texture_config.width,
\* texture_config.height);"
Swap_SetWindowSize(width, height) ==
  \E size \in {CalculateOutputDimensions(width, height)} :
  \E differs \in {size # m_last_window_request} :
  \E request \in {differs /\ ~m_fullscreen_state} :
     /\ m_last_window_request' = size
     /\ windowobs' = [ran |-> TRUE, tick |-> ~windowobs.tick,
                      before |-> m_last_window_request,
                      fullscreen |-> m_fullscreen_state,
                      computed |-> size,
                      requested |-> request,
                      arg |-> IF request THEN size ELSE <<0, 0>>,
                      host |-> IF request THEN size ELSE windowobs.host]
     /\ UNCHANGED <<threadVars, m_aspect_wide, aspectobs, geomVars,
                    confVars, createVars, imageVars, g_Config>>

\* ------------------------------------------- creation of backend objects
\* the creations InitializeImGui calls when those in fails return null: it
\* returns after the first check that finds a null (the two shaders are
\* both created before they are checked)
AttemptedCreations(fails) ==
  IF "context" \in fails THEN {"context"}
  ELSE IF "vertex_format" \in fails THEN {"context", "vertex_format"}
  ELSE IF "vertex_shader" \in fails \/ "pixel_shader" \in fails
    THEN {"context", "vertex_format", "vertex_shader", "pixel_shader"}
  ELSE IF "pipeline" \in fails
    THEN {"context", "vertex_format", "vertex_shader", "pixel_shader",
          "pipeline"}
  ELSE {CreateSteps[i] : i \in DOMAIN CreateSteps}

\* Renderer::InitializeImGui, called by Renderer::Initialize; fails are the
\* creations the backend cannot perform
InitializeImGui(fails) ==
  /\ ~imguiobs.ran
  /\ \E attempted \in {AttemptedCreations(fails)} :
       imguiobs' = [ran |-> TRUE, attempted |-> attempted,
                    failed |-> attempted \cap fails,
                    result |-> attempted \cap fails = {}]
  /\ UNCHANGED <<threadVars, m_aspect_wide, aspectobs, geomVars, confVars,
                 windowVars, createobs,
                 imageVars, g_Config>>

\* QueueFrameDumpReadback for a frame of dump size sz: "if (!rbtex ||
\* rbtex->GetConfig() != m_frame_dump_render_texture->GetConfig())", rbtex
\* being slot 0 after the swap
RecreatesReadback(sz) ==
  LET old == m_frame_dump_readback_textures
      sw == IF old[1].id # 0 THEN <<old[2], old[1]>> ELSE old
  IN sw[1].id = 0 \/ sw[1].size # sz

\* Swap: "if (IsFrameDumping()) DumpCurrentFrame();" for a frame of dump
\* size sz: RenderFrameDump creates
\* the render texture when it is missing or of another size
\* ("ASSERT(m_frame_dump_render_texture);", after which the texture is
\* drawn into), QueueFrameDumpReadback swaps the readback textures, creates
\* slot 0 when it is missing or of another size and, without looking at
\* the result, sets m_last_frame_exported and calls rbtex->CopyFromTexture.
\* render_ok and staging_ok tell whether the backend can create the
\* objects, ignored whether the failed assertion is dismissed.
Swap_DumpCurrentFrame(sz, render_ok, staging_ok, ignored) ==
  /\ imguiobs.ran /\ imguiobs.result
  /\ ~createobs.stopped
  /\ IsFrameDumping
  /\ \E q \in {QueuedReadback(sz)} :
     \E null_rt \in {m_frame_dump_render_texture # sz /\ ~render_ok} :
     \E null_rb \in {RecreatesReadback(sz) /\ ~staging_ok} :
       IF null_rt
         THEN \* the assertion fails; dismissed, the null texture is drawn
              \* into
              /\ m_frame_dump_render_texture' = 0
              /\ createobs' = [createobs EXCEPT !.null_render = ignored,
                                                !.stopped = TRUE]
              /\ UNCHANGED <<m_frame_dump_readback_textures, mapped,
                             job_buf, m_last_frame_exported>>
         ELSE /\ m_frame_dump_render_texture' = sz
              /\ m_last_frame_exported' = TRUE
              /\ job_buf' = BufAfterQueue(q.freed, q.target)
              /\ IF null_rb
                   THEN \* slot 0 is null and CopyFromTexture is called on
                        \* it
                        /\ m_frame_dump_readback_textures' =
                             <<NoTex, q.slots[2]>>
                        /\ mapped' = mapped \ {q.freed}
                        /\ createobs' =
                             [createobs EXCEPT !.null_staging = TRUE,
                                               !.stopped = TRUE]
                   ELSE /\ m_frame_dump_readback_textures' = q.slots
                        /\ mapped' = mapped \ {q.freed, q.target}
                        /\ UNCHANGED createobs
  /\ UNCHANGED <<renderVars, m_frame_dump_frame_running,
                 m_frame_dump_thread_running, m_frame_dump_start,
                 m_frame_dump_done, m_frame_dump_config,
                 m_screenshot_request, m_DumpFrames, job_pending, w_read,
                 workerVars, uiVars, obsVars, m_swap_mutex, m_imgui_mutex,
                 m_new_surface_handle, m_surface_changed, m_surface_resized,
                 m_fullscreen_state, m_last_fullscreen_state, d3d_hwnd,
                 d3d_fullscreen, m_backbuffer, bBorderlessFullscreen,
                 m_aspect_wide, aspectobs, geomVars, confVars, shotVars,
                 windowVars, imguiobs,
                 imageVars, g_Config>>

\* ------------------------------------------------------ specifications
\* the steps of Swap and BindBackbuffer, the XFB entries having ids in
\* ids and the frames dump sizes in sizes
RenderSwapOf(ids, sizes) ==
  \/ Swap_Begin
  \/ \E zero \in BOOLEAN, entry \in {NoEntry} \cup ids :
       (zero => entry = NoEntry) /\ Swap_Lookup(zero, entry)
  \/ Swap_Draw
  \/ Overlay_Lock
  \/ Overlay_Draw
  \/ Present_Lock
  \/ Present_Backbuffer
  \/ Present_Unlock
  \/ \E sz \in sizes : Swap_Post(sz)
  \/ BeginImGuiFrame_Lock
  \/ BeginImGuiFrame_Unlock
  \/ Swap_Tail
  \/ Call_Return
  \/ FlushFrameDump_Enter
  \/ Bind_CheckChange
  \/ \E sz \in BackbufferSizes : Bind_CheckResize(sz)

RenderSwap == RenderSwapOf(XfbIds, DumpSizes)

RenderDump ==
  \/ FinishFrameData
  \/ \E ok \in BOOLEAN : FlushFrameDump_Map(ok)
  \/ DumpFrameData
  \/ FlushFrameDump_Unmap
  \/ FlushFrameDump_Tail
  \/ ShutdownFrameDumping_Enter
  \/ ShutdownFrameDumping_Check
  \/ ShutdownFrameDumping_Clear
  \/ ShutdownFrameDumping_Wake
  \/ ShutdownFrameDumping_Join
  \/ Shutdown_Begin
  \/ \E ok \in BOOLEAN : Shutdown_End(ok)

Worker ==
  \/ RunFrameDumps_Wait
  \/ \E r \in {"frame", "garbage"} : RunFrameDumps_Screenshot(r)
  \/ \E open_ok \in BOOLEAN, r \in {"frame", "garbage"} :
       RunFrameDumps_Dump(open_ok, r)
  \/ RunFrameDumps_Done

DumpRequests ==
  \/ SaveScreenshot
  \/ \E b \in BOOLEAN : SetDumpFrames(b)

RenderSurface ==
  \/ Bind_Reset
  \/ \E sz \in BackbufferSizes : Bind_ClearHandle(sz)
  \/ BeginUIFrame
  \/ EndUIFrame_Begin
  \/ EndUIFrame_Post

UISurface ==
  \/ \E h \in Handles : ChangeSurface_Lock(h)
  \/ ChangeSurface_Write
  \/ ChangeSurface_Set
  \/ ChangeSurface_Unlock
  \/ ResizeSurface_Lock
  \/ ResizeSurface_Set
  \/ ResizeSurface_Unlock
  \/ \E enable \in BOOLEAN, ok \in BOOLEAN : SetFullscreen(enable, ok)
  \/ ImGuiInput_Lock
  \/ ImGuiInput_Unlock
  \/ WindowSystem_ToggleFullscreen

\* swap, frame dump and shutdown: render thread and worker, with dump
\* requests arriving from outside
Next == RenderSwap \/ RenderDump \/ Worker \/ DumpRequests

Spec == Init /\ [][Next]_vars

\* the handshake between the render thread and the worker does not depend
\* on the size of the frames: the same system with every frame of dump
\* size 1
NextHandshake ==
  RenderSwapOf(XfbIds, {1}) \/ RenderDump \/ Worker \/ DumpRequests

SpecHandshake == Init /\ [][NextHandshake]_vars

\* both threads are scheduled: a thread that can take a step eventually
\* takes one
FairSpec ==
  /\ SpecHandshake
  /\ WF_vars(Worker)
  /\ WF_vars(RenderSwapOf(XfbIds, {1}) \/ RenderDump)

\* surface and fullscreen lifecycle: render thread and UI thread, frame
\* dumping switched off
InitSurface ==
  /\ InitState
  /\ EmptyDumpDirectory
  /\ AspectInit
  /\ GeometryInit
  /\ m_DumpFrames = FALSE
  /\ bBorderlessFullscreen \in BOOLEAN

\* which XFB entry a Swap resolves matters to the surface only as far as
\* the frame is new or a repeat: two entry ids
NextSurface == RenderSwapOf(1..2, DumpSizes) \/ RenderSurface \/ UISurface

SpecSurface == InitSurface /\ [][NextSurface]_vars

\* screenshots on request: render thread, worker and the thread that calls
\* SaveScreenshot, continuous dumping switched off, every frame of dump
\* size 1 and two entry ids
InitScreenshot ==
  /\ InitState
  /\ EmptyDumpDirectory
  /\ AspectInit
  /\ GeometryInit
  /\ m_DumpFrames = FALSE
  /\ bBorderlessFullscreen = FALSE

WorkerScreenshot ==
  \/ RunFrameDumps_Wait
  \/ RunFrameDumps_TestAndClear
  \/ \E r \in {"frame", "garbage"} : RunFrameDumps_TextureToPng(r)
  \/ \E open_ok \in BOOLEAN, r \in {"frame", "garbage"} :
       RunFrameDumps_Dump(open_ok, r)
  \/ RunFrameDumps_Done

\* the calls of SaveScreenshot, for the filenames in names
ScreenshotCallsOf(names) ==
  \/ \E filename \in names, wait \in BOOLEAN :
       SaveScreenshot_Call(filename, wait)
  \/ SaveScreenshot_WaitFor

NextScreenshot ==
  RenderSwapOf(1..2, {1}) \/ RenderDump \/ WorkerScreenshot
    \/ ScreenshotCallsOf(Filenames)

SpecScreenshot == InitScreenshot /\ [][NextScreenshot]_vars

\* the same system with the calls of the behaviours followed to their end
NextScreenshotWait ==
  RenderSwapOf(1..2, {1}) \/ RenderDump \/ WorkerScreenshot
    \/ ScreenshotCallsOf(1..MaxFairScreenshots)

SpecScreenshotWait == InitScreenshot /\ [][NextScreenshotWait]_vars

\* the worker and the waiting caller are scheduled; the render thread may
\* stop presenting at any point
FairScreenshot ==
  /\ SpecScreenshotWait
  /\ WF_vars(WorkerScreenshot)
  /\ WF_vars(SaveScreenshot_WaitFor)

\* continuous dumping to images: render thread and worker, while the user
\* switches dumping on and off and takes no screenshot, in a silent or an
\* interactive session whose dump directory is empty or holds the first
\* image of an earlier dump; every frame of dump size 1 and two entry ids
InitImageDump ==
  /\ InitState
  /\ m_DumpFramesSilent \in BOOLEAN
  /\ dump_images \in {{}, {1}}
  /\ AspectInit
  /\ GeometryInit
  /\ m_DumpFrames \in BOOLEAN
  /\ bBorderlessFullscreen = FALSE

WorkerImageDump ==
  \/ RunFrameDumps_Wait
  \/ \E r \in {"frame", "garbage"} : RunFrameDumps_Screenshot(r)
  \/ \E answer \in BOOLEAN, r \in {"frame", "garbage"} :
       RunFrameDumps_DumpToImage(answer, r)
  \/ RunFrameDumps_Done

NextImageDump ==
  \/ RenderSwapOf(1..2, {1})
  \/ RenderDump
  \/ WorkerImageDump
  \/ \E b \in BOOLEAN : SetDumpFrames(b)

SpecImageDump == InitImageDump /\ [][NextImageDump]_vars

\* the window-size request of successive presented Swap calls, for a
\* renderer constructed with any aspect mode, crop setting and
\* video-interface aspect ratio in a 640 x 480 window, while the UI thread
\* enters and leaves fullscreen
InitWindow ==
  /\ InitState
  /\ EmptyDumpDirectory
  /\ m_DumpFrames = FALSE
  /\ bBorderlessFullscreen = FALSE
  /\ m_aspect_wide \in BOOLEAN
  /\ aspectobs = NoAspect
  /\ \E mode \in AspectModes, crop \in BOOLEAN, vi \in AspectRatios :
       ConstructedGeometry(640, 480, mode, crop, vi)
  /\ ConstructedTarget(MaxTextureSize_11_0)

NextWindow ==
  \/ \E size \in XfbTextureSizes : Swap_SetWindowSize(size[1], size[2])
  \/ \E enable \in BOOLEAN, ok \in BOOLEAN : SetFullscreen(enable, ok)

SpecWindow == InitWindow /\ [][NextWindow]_vars

\* creation of backend objects: Renderer::Initialize sets up the overlay,
\* then frames of any dump size are dumped while a dump or a screenshot is
\* requested; any creation may fail
InitCreate ==
  /\ InitState
  /\ EmptyDumpDirectory
  /\ AspectInit
  /\ GeometryInit
  /\ m_DumpFrames \in BOOLEAN
  /\ bBorderlessFullscreen = FALSE

NextCreate ==
  \/ \E fails \in SUBSET {CreateSteps[i] : i \in DOMAIN CreateSteps} :
       InitializeImGui(fails)
  \/ \E sz \in DumpSizes, render_ok \in BOOLEAN, staging_ok \in BOOLEAN,
        ignored \in BOOLEAN :
       Swap_DumpCurrentFrame(sz, render_ok, staging_ok, ignored)
  \/ DumpRequests

SpecCreate == InitCreate /\ [][NextCreate]_vars

\* widescreen detection over successive Swap calls; the renderer is
\* constructed for a Wii title with the widescreen setting on or off, or
\* for a GameCube title
InitAspect ==
  /\ InitState
  /\ EmptyDumpDirectory
  /\ m_DumpFrames = FALSE
  /\ bBorderlessFullscreen = FALSE
  /\ m_aspect_wide \in BOOLEAN
  /\ aspectobs = NoAspect
  /\ GeometryInit

NextAspect ==
  \E suggested \in AspectModes, bWii \in BOOLEAN, sysconf \in BOOLEAN,
     c43 \in FlushCounts, cana \in FlushCounts :
    Swap_Aspect(suggested, bWii, sysconf, c43, cana)

SpecAspect == InitAspect /\ [][NextAspect]_vars

\* the draw rectangle over successive presented Swap calls, for a renderer
\* constructed with any backbuffer size, aspect mode, crop setting and
\* video-interface aspect ratio
InitRect ==
  /\ InitState
  /\ EmptyDumpDirectory
  /\ m_DumpFrames = FALSE
  /\ bBorderlessFullscreen = FALSE
  /\ m_aspect_wide \in BOOLEAN
  /\ aspectobs = NoAspect
  /\ \E w \in WindowSizes, h \in WindowSizes, mode \in AspectModes,
        crop \in BOOLEAN, vi \in AspectRatios :
       ConstructedGeometry(w, h, mode, crop, vi)
  /\ ConstructedTarget(MaxTextureSize_11_0)

NextRect ==
  \E w \in WindowSizes, h \in WindowSizes : Swap_UpdateDrawRectangle(w, h)

SpecRect == InitRect /\ [][NextRect]_vars

\* the configuration check at the end of successive presented Swap calls,
\* in a 2880 x 2160 window on a backend of the lowest feature level: the
\* automatic scale is 4 and is clamped to 3, as is the fixed scale 4

InitConfig ==
  /\ InitState
  /\ EmptyDumpDirectory
  /\ m_DumpFrames = FALSE
  /\ bBorderlessFullscreen = FALSE
  /\ AspectInit
  /\ ConstructedGeometry(2880, 2160, "Auto", FALSE, <<4, 3>>)
  /\ ConstructedTarget(MaxTextureSize_9_1)

NextConfig ==
  \E edited \in EditedFields, scale \in EFBScales :
    /\ scale # g_ActiveConfig.iEFBScale <=> "iEFBScale" \in edited
    /\ \E new \in {UpdatedConfig(g_ActiveConfig, edited, scale)} :
         Swap_CheckForConfigChanges(new)

SpecConfig == InitConfig /\ [][NextConfig]_vars

\* the render-target size over the steps of successive presented Swap
\* calls that bear on it (the draw rectangle, the configuration check with
\* a new scale setting, the last XFB size), for a renderer constructed in
\* any of the windows on a backend of the highest or the lowest feature
\* level
TargetWindows == {<<2, 2>>, <<644, 483>>, <<720, 540>>, <<2880, 2160>>}
\* fbStride and fbHeight of the frames presented: out of range, small, and
\* around the native sizes
XfbStrides == {0, 1, 643, MAX_XFB_WIDTH + 1}
XfbHeights == {0, 539, MAX_XFB_HEIGHT}

InitTarget ==
  /\ InitState
  /\ EmptyDumpDirectory
  /\ m_DumpFrames = FALSE
  /\ bBorderlessFullscreen = FALSE
  /\ AspectInit
  /\ \E win \in TargetWindows :
       ConstructedGeometry(win[1], win[2], "Auto", FALSE, <<4, 3>>)
  /\ \E max_size \in {MaxTextureSize_9_1, MaxTextureSize_11_0} :
       ConstructedTarget(max_size)

NextTarget ==
  \/ \E win \in TargetWindows : Swap_UpdateDrawRectangle(win[1], win[2])
  \/ \E scale \in EFBScales :
       Swap_CheckForConfigChanges([g_ActiveConfig EXCEPT
                                     !.iEFBScale = scale])
  \/ \E fbStride \in XfbStrides, fbHeight \in XfbHeights :
       Swap_UpdateLastXfb(fbStride, fbHeight)

SpecTarget == InitTarget /\ [][NextTarget]_vars

\* the configuration check over successive Swap calls, presented or not,
\* while the user interface edits settings between them
EditableSettings ==
  {"stereo_mode", "iMaxAnisotropy", "bVSyncActive", "iEFBScale"}

\* the user interface writing the setting f of g_Config (scale is the
\* internal resolution after the edit)
EditConfig(f, scale) ==
  /\ rpc = "idle"
  /\ g_Config' = UpdatedConfig(g_Config, {f}, scale)
  /\ UNCHANGED <<threadVars, m_aspect_wide, aspectobs, geomVars, confVars,
                 windowVars, createVars, imageVars>>

\* the same call with the configuration check in both branches
Swap_ConfigCheck_EveryCall(zero, entry) ==
  /\ rpc = "idle"
  /\ call' = [NewCall("Swap") EXCEPT
                !.entry = entry,
                !.dedup = (~zero /\ entry # NoEntry
                             /\ entry = m_last_xfb_id),
                !.flushes = IF ~zero /\ IsNewFrame(entry, m_last_xfb_id)
                              THEN 0 ELSE 1]
  /\ m_last_xfb_id' = IF ~zero /\ IsNewFrame(entry, m_last_xfb_id)
                        THEN entry ELSE m_last_xfb_id
  /\ CheckForConfigChanges(g_Config)
  /\ UNCHANGED <<rpc, rstack, dumpVars, workerVars, uiVars, obsVars,
                 m_swap_mutex, m_imgui_mutex, m_new_surface_handle,
                 m_surface_changed, m_surface_resized, m_fullscreen_state,
                 m_last_fullscreen_state, d3d_hwnd, d3d_fullscreen,
                 m_backbuffer, bBorderlessFullscreen, shotVars, g_Config>>

\* Renderer::Swap as far as the configuration goes, one call in one step:
\* a new frame records the id and, after the presentation, runs
\* CheckForConfigChanges on the settings as they are then; a call with a
\* zero argument, without an entry or with the id of the last presented
\* frame only calls Flush()
Swap_ConfigCheck(zero, entry) ==
  /\ rpc = "idle"
  /\ LET seen == [NewCall("Swap") EXCEPT
                    !.entry = entry,
                    !.dedup = (~zero /\ entry # NoEntry
                                 /\ entry = m_last_xfb_id)]
     IN IF ~zero /\ IsNewFrame(entry, m_last_xfb_id)
          THEN /\ m_last_xfb_id' = entry
               /\ call' = seen
               /\ CheckForConfigChanges(g_Config)
          ELSE /\ call' = [seen EXCEPT !.flushes = @ + 1]
               /\ UNCHANGED <<m_last_xfb_id, m_aspect_wide, aspectobs,
                              geomVars, confVars, windowVars, createVars,
                              imageVars>>
  /\ UNCHANGED <<rpc, rstack, dumpVars, workerVars, uiVars, obsVars,
                 m_swap_mutex, m_imgui_mutex, m_new_surface_handle,
                 m_surface_changed, m_surface_resized, m_fullscreen_state,
                 m_last_fullscreen_state, d3d_hwnd, d3d_fullscreen,
                 m_backbuffer, bBorderlessFullscreen, shotVars, g_Config>>

InitApply == InitConfig

NextApply ==
  \/ \E f \in EditableSettings, scale \in EFBScales :
       /\ scale # g_Config.iEFBScale <=> f = "iEFBScale"
       /\ EditConfig(f, scale)
  \/ \E zero \in BOOLEAN, entry \in {NoEntry} \cup XfbIds :
       (zero => entry = NoEntry) /\ Swap_ConfigCheck(zero, entry)

SpecApply == InitApply /\ [][NextApply]_vars

\* the draw rectangle in backbuffers from a single pixel to 1920 x 1080,
\* for a renderer constructed with any of these sizes, any aspect mode,
\* crop setting, video-interface aspect ratio and widescreen flag
BackbufferWidths == {1, 5, 640, 854, 1919, 1920}
BackbufferHeights == {1, 5, 480, 1080}

InitRatio ==
  /\ InitState
  /\ EmptyDumpDirectory
  /\ m_DumpFrames = FALSE
  /\ bBorderlessFullscreen = FALSE
  /\ m_aspect_wide \in BOOLEAN
  /\ aspectobs = NoAspect
  /\ \E w \in BackbufferWidths, h \in BackbufferHeights,
        mode \in AspectModes, crop \in BOOLEAN, vi \in AspectRatios :
       ConstructedGeometry(w, h, mode, crop, vi)
  /\ ConstructedTarget(MaxTextureSize_11_0)

NextRatio ==
  \E w \in BackbufferWidths, h \in BackbufferHeights :
    Swap_UpdateDrawRectangle(w, h)

SpecRatio == InitRatio /\ [][NextRatio]_vars

\* ---------------------------------------------------------------- claims
\* C1: a Swap whose resolved XFB entry has the id of the last presented
\* frame binds nothing, presents nothing, reports no performance sample
\* and leaves m_last_xfb_id alone (still the id the entry was compared
\* with); when it returns it has called Flush() once.
C1_DedupOnlyFlushes ==
  (call.kind = "Swap" /\ call.dedup) =>
    /\ call.binds = 0 /\ call.presents = 0 /\ call.samples = 0
    /\ m_last_xfb_id = call.entry
    /\ (rpc = "ret" => call.flushes = 1)

\* a deduplicated Swap about to return
C1_Witness ==
  /\ rpc = "ret" /\ call.kind = "Swap" /\ call.dedup
  /\ call.flushes = 1 /\ m_last_xfb_id \in XfbIds

\* C2: while a dump job is outstanding (DumpFrameData called, its done
\* event not yet consumed by FinishFrameData) the memory behind the job's
\* pointer is still mapped, unmodified and not freed.
C2_BufferValidWhileOutstanding ==
  m_frame_dump_frame_running => job_buf = "valid"

\* C3: DumpFrameData is only entered when no job is outstanding, and the
\* job description is never overwritten while the worker processes a job.
C3_OneJobInFlight ==
  /\ rpc = "dfd" => (~m_frame_dump_frame_running /\ ~job_pending)
  /\ wpc \in {"shot", "dump", "done"} => w_config = m_frame_dump_config

\* a second job is about to be submitted by a call that found the
\* previous one outstanding
C3_Witness ==
  rpc = "dfd" /\ call.job_at_entry /\ wpc = "wait"

\* C4: ShutdownFrameDumping clears the thread-running flag, wakes and joins
\* the worker only after the worker has signalled done for the outstanding
\* job and the render thread has observed it; Renderer::Shutdown returns
\* only then.
C4_ShutdownDrains ==
  (\/ rpc \in {"sfd_clear", "sfd_wake", "sfd_join"}
   \/ (call.kind = "Shutdown" /\ rpc \in {"shutdown_fs", "dead"}))
  => (~job_pending /\ ~m_frame_dump_frame_running)

\* Renderer::Shutdown found a job outstanding and is about to clear the
\* thread-running flag
C4_Witness ==
  /\ rpc = "sfd_clear" /\ call.kind = "Shutdown"
  /\ call.job_at_entry /\ call.dfd = 0

\* C5: the render thread never waits for done while the worker is blocked
\* on start or gone, and with both threads scheduled every render-thread
\* call (Swap, Shutdown, and the FlushFrameDump, ShutdownFrameDumping and
\* FinishFrameData inside them) returns; a wait in FinishFrameData that
\* never returned would keep the call that contains it from returning.
C5_HandshakeLive ==
  /\ [](rpc = "ffin" /\ m_frame_dump_frame_running /\ ~m_frame_dump_done
          => (wpc \in {"shot", "dump", "done"}
              \/ (wpc = "wait" /\ m_frame_dump_start)))
  /\ (rpc \notin {"idle", "dead"} ~> rpc \in {"idle", "dead"})

\* the render thread is blocked in FinishFrameData while the worker encodes
C5_Witness ==
  rpc = "ffin" /\ m_frame_dump_frame_running /\ ~m_frame_dump_done
  /\ wpc = "dump"

\* C6: the backend surface and the backbuffer size change only inside
\* BindBackbuffer, and one BindBackbuffer performs at most one surface
\* reset and at most one swap-chain resize.
C6_SurfaceEventsAppliedAtBind ==
  [][ /\ (d3d_hwnd' # d3d_hwnd \/ m_backbuffer' # m_backbuffer)
           => rpc \in {"bind_reset", "bind_null", "bind_resize"}
      /\ bindobs'.resets <= 1 /\ bindobs'.resizes <= 1 ]_vars

\* both notifications arrived between BindBackbuffer and the present of
\* the same frame and are still pending while it is presented
C6_Witness ==
  /\ rpc = "present" /\ call.kind = "Swap"
  /\ m_surface_changed /\ m_surface_resized
  /\ m_new_surface_handle # d3d_hwnd

\* C7: once the last ChangeSurface(h) has returned and a BindBackbuffer
\* that started afterwards has completed, the backend uses surface h, and
\* stays on it until ChangeSurface is called again.
C7_SettledSurface ==
  csobs.settled => d3d_hwnd = csobs.last

\* C8: a present executes only with m_swap_mutex held by the render
\* thread, the UI thread writes the pending surface state only with the
\* mutex held, hence never while a present executes.
C8_PresentUnderSwapMutex ==
  /\ rpc = "present" => m_swap_mutex = "render"
  /\ upc \in {"cs_write", "cs_set", "rs_set"} => m_swap_mutex = "ui"
  /\ ~(rpc = "present" /\ upc \in {"cs_write", "cs_set", "rs_set"})

\* EndUIFrame presents while a surface replacement recorded earlier is
\* pending
C8_Witness ==
  rpc = "present" /\ call.kind = "EndUIFrame" /\ m_surface_changed

\* C9: no renderer operation called on the UI thread invokes a backend
\* device or swap-chain entry point.
C9_NoBackendCallOnUIThread ==
  ~ui_backend_call

\* C10 as stated: a deduplicated Swap renders no frame for dumping, hands
\* no job to the worker and does not signal start.
C10_DedupNoDump ==
  (call.kind = "Swap" /\ call.dedup) =>
    (call.dcf = 0 /\ call.dfd = 0 /\ call.starts = 0)

\* C10 amended: a deduplicated Swap renders no frame for dumping and
\* queues no readback; it hands a job to the worker or signals start only
\* to deliver the readback the previous presented frame had queued
\* (m_last_frame_exported set on entry), and at most one job.
C10_DedupNoNewDump ==
  (call.kind = "Swap" /\ call.dedup) =>
    /\ call.dcf = 0
    /\ call.dfd <= 1
    /\ ~call.exported_at_entry => (call.dfd = 0 /\ call.starts = 0)
    /\ (rpc = "ret" => ~m_last_frame_exported)

\* a deduplicated Swap that delivered the previous frame's readback
C10_Witness ==
  /\ rpc = "ret" /\ call.kind = "Swap" /\ call.dedup
  /\ call.exported_at_entry /\ call.dfd = 1 /\ call.dcf = 0

\* C11: a Swap that presents (a resolved entry whose id is not the last
\* presented one) advances frameCount by exactly one, presents once,
\* reports one performance sample and calls Cleanup once with the already
\* incremented counter; a deduplicated Swap, a Swap without entry and a
\* Swap with a zero argument leave the counter alone and do none of these.
C11_FrameCounterCountsPresents ==
  (call.kind = "Swap" /\ rpc = "ret") =>
    IF call.entry # NoEntry /\ ~call.dedup
      THEN /\ call.frames = 1 /\ call.presents = 1 /\ call.samples = 1
           /\ call.cleanups = 1 /\ call.cleanup_frame = 1
      ELSE /\ call.frames = 0 /\ call.presents = 0 /\ call.samples = 0
           /\ call.cleanups = 0

\* a presented Swap about to return, after an earlier frame was presented
C11_Witness ==
  /\ call.kind = "Swap" /\ rpc = "ret" /\ call.frames = 1
  /\ call.cleanup_frame = 1 /\ call.exported_at_entry

\* C12 as stated: in every Swap the widescreen state goes from wide to
\* narrow only if the 4:3-like count is more than 0.75 of the total, and
\* from narrow to wide only if the anamorphic count is.
C12_HysteresisEverySwap ==
  aspectobs.ran =>
    LET total == aspectobs.c43 + aspectobs.cana IN
    /\ (aspectobs.before /\ ~m_aspect_wide)
         => OverThreshold(aspectobs.c43, total)
    /\ (~aspectobs.before /\ m_aspect_wide)
         => OverThreshold(aspectobs.cana, total)

\* C12 amended: the hysteresis governs the Swap calls that take the
\* heuristic branch (no Analog/AnalogWide suggestion, GameCube title):
\* there the state flips exactly when the count of the other class is
\* more than 0.75 of the total, and stays otherwise (total zero, fraction
\* exactly 0.75); an Analog or AnalogWide suggestion forces narrow or wide.
C12_HysteresisWhenHeuristic ==
  aspectobs.ran =>
    LET total == aspectobs.c43 + aspectobs.cana IN
    /\ (aspectobs.suggested \notin {"Analog", "AnalogWide"}
          /\ ~aspectobs.bWii) =>
         /\ (aspectobs.before /\ ~m_aspect_wide)
              <=> (aspectobs.before /\ 4 * aspectobs.c43 > 3 * total)
         /\ (~aspectobs.before /\ m_aspect_wide)
              <=> (~aspectobs.before /\ 4 * aspectobs.cana > 3 * total)
    /\ aspectobs.suggested = "Analog" => ~m_aspect_wide
    /\ aspectobs.suggested = "AnalogWide" => m_aspect_wide

\* a wide frame with exactly three quarters of its flushes 4:3-like stays
\* wide
C12_Witness ==
  /\ aspectobs.ran /\ aspectobs.suggested = "Auto" /\ ~aspectobs.bWii
  /\ aspectobs.before /\ aspectobs.c43 = 3 /\ aspectobs.cana = 1
  /\ m_aspect_wide

\* the least integer not below the ratio a
IsCeilingOf(c, a) == c * a[2] >= a[1] /\ (c - 1) * a[2] < a[1]

\* C13: after every UpdateDrawRectangle call (construction and presented
\* Swap), for every backbuffer size, aspect mode, crop setting and
\* widescreen state, width and height of the target rectangle are
\* multiples of 4, each being the computed draw size rounded up to an
\* integer and reduced to the nearest lower multiple of 4.
C13_RectangleAlignedTo4 ==
  LET width == m_target_rectangle.right - m_target_rectangle.left
      height == m_target_rectangle.bottom - m_target_rectangle.top
  IN /\ width % 4 = 0
     /\ height % 4 = 0
     /\ \E c \in width..(width + 3) : IsCeilingOf(c, rectobs.draw[1])
     /\ \E c \in height..(height + 3) : IsCeilingOf(c, rectobs.draw[2])

\* a presented Swap whose draw width is a fraction and whose rounded-up
\* height is not a multiple of 4, in a window that leaves a rectangle
C13_Witness ==
  /\ rectobs.in_swap
  /\ m_target_rectangle.right > m_target_rectangle.left
  /\ m_target_rectangle.bottom > m_target_rectangle.top
  /\ ~IsCeilingOf(m_target_rectangle.bottom - m_target_rectangle.top,
                  rectobs.draw[2])
  /\ rectobs.draw[1][1] % rectobs.draw[1][2] # 0
  /\ g_ActiveConfig.bCrop

\* C14: in every CheckForConfigChanges call each bit of the change mask is
\* set if and only if its own tracked field differs between the snapshot
\* and the updated settings, and the target-size bit if and only if
\* CalculateTargetSize reported a change (which it does exactly when the
\* target size differs afterwards); the mask is 0 exactly when nothing
\* changed, and a change of vsync alone yields exactly the vsync bit.
C14_MaskBitPerField ==
  confobs.ran =>
    LET old == confobs.old
        new == g_ActiveConfig
        bits == confobs.changed_bits
        differs(f) == old[f] # new[f]
    IN /\ bits \in 0..255
       /\ HasBit(bits, CONFIG_CHANGE_BIT_HOST_CONFIG)
            <=> differs("host_config_bits")
       /\ HasBit(bits, CONFIG_CHANGE_BIT_MULTISAMPLES)
            <=> differs("iMultisamples")
       /\ HasBit(bits, CONFIG_CHANGE_BIT_STEREO_MODE)
            <=> differs("stereo_mode")
       /\ HasBit(bits, CONFIG_CHANGE_BIT_ANISOTROPY)
            <=> differs("iMaxAnisotropy")
       /\ HasBit(bits, CONFIG_CHANGE_BIT_FORCE_TEXTURE_FILTERING)
            <=> differs("bForceFiltering")
       /\ HasBit(bits, CONFIG_CHANGE_BIT_VSYNC) <=> differs("bVSyncActive")
       /\ HasBit(bits, CONFIG_CHANGE_BIT_BBOX) <=> differs("bBBoxEnable")
       /\ HasBit(bits, CONFIG_CHANGE_BIT_TARGET_SIZE)
            <=> confobs.target_changed
       /\ confobs.target_changed
            <=> <<m_target_width, m_target_height>> # confobs.old_target
       /\ bits = 0
            <=> /\ \A f \in TrackedFields \ {"iEFBScale"} : ~differs(f)
                /\ ~confobs.target_changed
       /\ (/\ differs("bVSyncActive")
           /\ \A f \in TrackedFields \ {"bVSyncActive"} : ~differs(f)
           /\ ~confobs.target_changed)
            => bits = CONFIG_CHANGE_BIT_VSYNC

\* a check that found vsync toggled and nothing else changed, and before
\* it a check in which anisotropy and the target size changed together
C14_Witness ==
  /\ confobs.ran
  /\ confobs.changed_bits = CONFIG_CHANGE_BIT_VSYNC
  /\ confobs.old.iMaxAnisotropy # DefaultConfig.iMaxAnisotropy
  /\ m_efb_scale > 1

\* C15: in CheckForConfigChanges the backend hook OnConfigChanged is
\* called (with the mask) if and only if the mask is non-zero; the bound
\* pipeline is cleared (SetPipeline(nullptr), InvalidatePipelineObject)
\* and the shader cache is given the new host configuration if and only
\* if the mask contains the host-configuration bit or the multisample
\* bit; a mask with neither bit invalidates nothing.
C15_HookAndReloadByMask ==
  confobs.ran =>
    LET bits == confobs.changed_bits
        reload == \/ HasBit(bits, CONFIG_CHANGE_BIT_HOST_CONFIG)
                  \/ HasBit(bits, CONFIG_CHANGE_BIT_MULTISAMPLES)
    IN /\ confobs.on_config_changed <=> bits # 0
       /\ confobs.on_config_changed => confobs.hook_bits = bits
       /\ confobs.set_pipeline_null <=> reload
       /\ confobs.invalidate_pipeline <=> reload
       /\ confobs.set_host_config =
            IF reload THEN <<g_ActiveConfig.host_config_bits,
                             g_ActiveConfig.iMultisamples>>
                      ELSE <<>>

\* a check whose mask has the multisample bit without the host
\* configuration bit, and which cleared the pipeline
C15_Witness ==
  /\ confobs.ran
  /\ HasBit(confobs.changed_bits, CONFIG_CHANGE_BIT_MULTISAMPLES)
  /\ ~HasBit(confobs.changed_bits, CONFIG_CHANGE_BIT_HOST_CONFIG)
  /\ confobs.on_config_changed
  /\ confobs.invalidate_pipeline

\* C16: the render-target size is the size the last CalculateTargetSize
\* call stored (it changes nowhere else), and every change of it
\* invalidates the pipeline and shader objects: whenever
\* CalculateTargetSize returned true in a configuration check, that check
\* cleared the bound pipeline and asked the shader cache to rebuild.
C16_TargetSizeChangeInvalidates ==
  /\ <<m_target_width, m_target_height>> = confobs.target
  /\ (confobs.ran /\ confobs.target_changed) =>
       /\ confobs.set_pipeline_null
       /\ confobs.invalidate_pipeline
       /\ confobs.set_host_config # <<>>

\* C17: the frame-dump worker runs one loop iteration per start signal
\* (a start is signalled only while the event is clear and the worker is
\* at its wait, and leaving the wait consumes it) and sets done exactly
\* once, at the end of each iteration; waking with the thread-running
\* flag cleared it exits without signalling done; in an iteration a
\* pending screenshot request is handled first, whether or not continuous
\* dumping is enabled, and the continuous-dump frame is written
\* afterwards from the same job copy.
C17_WorkerLoop ==
  [][/\ (call'.starts = call.starts + 1) =>
          /\ ~m_frame_dump_start /\ m_frame_dump_start'
          /\ wpc' = "wait"
     /\ (wpc = "wait" /\ wpc' # "wait") =>
          /\ m_frame_dump_start /\ ~m_frame_dump_start'
          /\ wpc' = IF m_frame_dump_thread_running THEN "shot" ELSE "exited"
          /\ m_frame_dump_done' = m_frame_dump_done
     /\ (wpc = "shot" /\ wpc' # "shot") =>
          /\ wpc' = "dump"
          /\ m_screenshot_request =>
               ~m_screenshot_request' /\ w_read' # "none"
     /\ (m_screenshot_request /\ ~m_screenshot_request') =>
          wpc = "shot" /\ wpc' = "dump"
     /\ (wpc = "dump" /\ wpc' # "dump") =>
          /\ wpc' = "done"
          /\ (m_DumpFrames /\ m_DumpFrames') => w_read' # "none"
     /\ (wpc = "done" /\ wpc' # "done") =>
          /\ wpc' = "wait"
          /\ ~m_frame_dump_done /\ m_frame_dump_done'
     /\ (~m_frame_dump_done /\ m_frame_dump_done') =>
          wpc = "done" /\ wpc' = "wait"
     /\ (w_config' # w_config) =>
          \/ wpc = "wait" /\ wpc' = "shot"
               /\ w_config' = m_frame_dump_config
          \/ wpc = "done" /\ wpc' = "wait"
    ]_vars

\* an iteration that handled a screenshot request while continuous
\* dumping is off and is about to signal done
C17_Witness ==
  /\ wpc = "done"
  /\ w_read # "none"
  /\ ~m_DumpFrames
  /\ ~m_screenshot_request
  /\ ~m_frame_dump_done
  /\ w_config = m_frame_dump_config

\* the worker thread exists and has not left RunFrameDumps
WorkerAlive == wpc \in {"wait", "shot", "dump", "done"}

\* C18: DumpFrameData never waits for the worker to process a job: when
\* it is entered it can always run (with the thread-running flag clear
\* there is no live worker left to join), and it stores the job, starts
\* the worker thread if and only if the thread-running flag is clear, and
\* signals start. A worker thread is only ever started while none is
\* alive; outside the stop sequence of ShutdownFrameDumping (flag cleared,
\* worker not yet joined), hence after any sequence of DumpFrameData and
\* ShutdownFrameDumping calls, a worker is alive exactly while the
\* thread-running flag is set.
C18_LazyStartOneWorker ==
  /\ [](rpc = "dfd" => (m_frame_dump_thread_running \/ ~WorkerAlive))
  /\ [](rpc \notin {"sfd_wake", "sfd_join"} =>
          (WorkerAlive <=> m_frame_dump_thread_running))
  /\ [][(rpc = "dfd" /\ rpc' # "dfd") =>
          /\ m_frame_dump_config' = m_frame_dump_readback_textures[1].id
          /\ job_pending'
          /\ m_frame_dump_start'
          /\ m_frame_dump_frame_running'
          /\ m_frame_dump_thread_running'
          /\ (~WorkerAlive /\ wpc' = "wait") <=> ~m_frame_dump_thread_running
          /\ m_frame_dump_thread_running => wpc' = wpc
          /\ m_frame_dump_done' = m_frame_dump_done
          /\ rpc' = "ffd_unmap"
        ]_vars

\* DumpFrameData is entered after a ShutdownFrameDumping stopped an
\* earlier worker: the flag is clear and a new thread will be started
C18_Witness ==
  /\ rpc = "dfd"
  /\ ~m_frame_dump_thread_running
  /\ wpc = "none"
  /\ m_frame_dump_config # 0

\* the ids of the readback textures that exist
ReadbackIds ==
  {m_frame_dump_readback_textures[i].id : i \in 1..2} \ {0}

\* C19: frame dumping is shut down in the order flush, stop flag, wake,
\* join, release: the thread-running flag is cleared only after the
\* outstanding job's done event was consumed, the wake follows the clear,
\* and ShutdownFrameDumping (also when called from Renderer::Shutdown)
\* releases the render texture and both readback textures only with no
\* job outstanding and the worker joined; no readback texture is destroyed
\* while the outstanding job refers to it, so the texture of an
\* outstanding job always exists.
C19_ShutdownOrder ==
  /\ [](m_frame_dump_frame_running => m_frame_dump_config \in ReadbackIds)
  /\ [][/\ (m_frame_dump_thread_running /\ ~m_frame_dump_thread_running') =>
             /\ rpc = "sfd_clear" /\ rpc' = "sfd_wake"
             /\ ~m_last_frame_exported
             /\ ~m_frame_dump_frame_running /\ ~job_pending
        /\ (rpc = "sfd_wake" /\ rpc' # "sfd_wake") =>
             /\ ~m_frame_dump_thread_running
             /\ m_frame_dump_start'
             /\ rpc' = "sfd_join"
             /\ UNCHANGED <<m_frame_dump_render_texture,
                            m_frame_dump_readback_textures>>
        /\ (rpc = "sfd_join" /\ rpc' # "sfd_join") =>
             /\ ~m_frame_dump_frame_running /\ ~job_pending
             /\ ~m_frame_dump_thread_running
             /\ wpc \in {"none", "exited"} /\ wpc' = "none"
             /\ m_frame_dump_render_texture' = 0
             /\ m_frame_dump_readback_textures' = <<NoTex, NoTex>>
        /\ \A id \in ReadbackIds :
             (id \notin ReadbackIds') =>
               ~(m_frame_dump_frame_running /\ m_frame_dump_config = id)
        /\ (m_frame_dump_render_texture # 0
              /\ m_frame_dump_render_texture' = 0) => rpc = "sfd_join"
      ]_vars

\* Renderer::Shutdown has stopped frame dumping: a job was handed over
\* in this call, the worker is joined and the textures are released
C19_Witness ==
  /\ call.kind = "Shutdown"
  /\ call.dfd = 1
  /\ rpc = "shutdown_fs"
  /\ wpc = "none"
  /\ m_frame_dump_config # 0
  /\ m_frame_dump_readback_textures = <<NoTex, NoTex>>
  /\ ~m_frame_dump_frame_running

\* C20: every BindBackbuffer polls the exclusive-fullscreen state in
\* CheckForSurfaceResize (it returns only through that step), and a
\* detected change is handled like an explicit resize: the resize path
\* runs if and only if the resize flag was set or the polled state
\* differs from m_last_fullscreen_state; after the step the resize flag
\* is clear and m_last_fullscreen_state is the state polled, and
\* m_last_fullscreen_state changes nowhere else.
C20_FullscreenPolledAtBind ==
  [][/\ (rpc = "bind_resize" /\ rpc' # "bind_resize") =>
          /\ (bindobs'.resizes = bindobs.resizes + 1)
               <=> (m_surface_resized
                     \/ d3d_fullscreen # m_last_fullscreen_state)
          /\ (bindobs'.resizes = bindobs.resizes)
               <=> ~(m_surface_resized
                      \/ d3d_fullscreen # m_last_fullscreen_state)
          /\ (bindobs'.resizes = bindobs.resizes) =>
               m_backbuffer' = m_backbuffer
          /\ ~m_surface_resized'
          /\ m_last_fullscreen_state' = d3d_fullscreen
          /\ bindobs.open /\ ~bindobs'.open
     /\ (bindobs.open /\ ~bindobs'.open) => rpc = "bind_resize"
     /\ (m_last_fullscreen_state' # m_last_fullscreen_state) =>
          rpc = "bind_resize"
     /\ (bindobs'.resizes = bindobs.resizes + 1) => rpc = "bind_resize"
    ]_vars

\* a BindBackbuffer has returned after taking the resize path, and the
\* fullscreen state it polled is the exclusive one
C20_Witness ==
  /\ ~bindobs.open
  /\ bindobs.resizes = 1
  /\ call.binds = 1
  /\ m_last_fullscreen_state
  /\ d3d_fullscreen
  /\ ~m_surface_resized
  /\ rpc = "swap_draw"

\* ---------------------------------------------------------------- C21
\* the render thread's positions inside a section that draws the overlay
\* (Swap and EndUIFrame: DrawDebugText, OSD::DrawMessages, RenderImGui) or
\* begins a new overlay frame (BeginImGuiFrame)
OverlaySections == {"overlay", "begin_imgui_unlock"}

\* C21: the UI thread writes ImGui input state (key, mouse position,
\* mouse button, key map) only while it holds the overlay lock; the
\* render thread holds that lock exactly while it draws the overlay or
\* begins a new overlay frame; so no UI write overlaps those sections
C21_OverlayLockExcludes ==
  /\ upc = "imgui_unlock" => m_imgui_mutex = "ui"
  /\ m_imgui_mutex = "ui" => upc = "imgui_unlock"
  /\ rpc \in OverlaySections <=> m_imgui_mutex = "render"
  /\ ~(upc = "imgui_unlock" /\ rpc \in OverlaySections)

\* the UI thread is inside its locked input write while the render thread
\* waits to draw the overlay of a Swap
C21_Witness ==
  /\ upc = "imgui_unlock"
  /\ m_imgui_mutex = "ui"
  /\ rpc = "overlay_lock"
  /\ call.kind = "Swap"

\* ---------------------------------------------------------------- C22
\* C22: when a waiting SaveScreenshot returns before its timeout, the
\* worker has written the screenshot to the filename of that call,
\* whatever calls (waiting, not waiting, timed out) were made before
C22_ReturnMeansWritten ==
  shotobs.result = "completed" => shotobs.calls \in shotobs.written

\* ---------------------------------------------------------------- C23
\* C23: a waiting SaveScreenshot always returns, whether or not a frame is
\* presented again; running into the timeout cancels nothing (the request
\* flag and the filename are left as they are); and when frames keep being
\* presented afterwards (and mapping the readback texture does not fail
\* for ever) the screenshot of a timed-out call is written, unless a later
\* call replaces the request
C23_TimeoutCancelsNothing ==
  /\ [](upc = "shot_wait" => <>(upc = "idle"))
  /\ [][(upc = "shot_wait" /\ upc' = "idle") =>
          /\ m_screenshot_request' = m_screenshot_request
          /\ m_screenshot_name' = m_screenshot_name
          /\ shotobs'.written = shotobs.written
          /\ shotobs'.result = "timeout" <=> ~m_screenshot_completed]_vars
  /\ ([]<><<Swap_Post(1)>>_vars /\ <>[][~FlushFrameDump_Map(FALSE)]_vars) =>
       (shotobs.result = "timeout" ~>
          (shotobs.calls \in shotobs.written \/ shotobs.result # "timeout"))

\* a call waited, ran into its timeout with the request still pending,
\* and the worker wrote its screenshot afterwards
C23_Witness ==
  /\ shotobs.result = "timeout"
  /\ shotobs.calls \in shotobs.written
  /\ ~m_screenshot_request
  /\ m_screenshot_name = NoName

\* ---------------------------------------------------------------- C24
\* C24: a SetWindowSize call sends a window-size request to the host
\* exactly when the computed output size differs from the size computed by
\* the call before it and the renderer is not in fullscreen; so calls that
\* compute the same size send at most one request, and none is sent in
\* fullscreen
C24_WindowRequestOnChange ==
  /\ [](windowobs.ran =>
          /\ windowobs.requested <=>
               (windowobs.computed # windowobs.before
                  /\ ~windowobs.fullscreen)
          /\ windowobs.requested => windowobs.arg = windowobs.computed
          /\ m_last_window_request = windowobs.computed)
  /\ [][windowobs'.tick # windowobs.tick =>
          /\ windowobs'.before = m_last_window_request
          /\ windowobs'.fullscreen = m_fullscreen_state
          /\ windowobs.ran => windowobs'.before = windowobs.computed
          /\ (windowobs.ran /\ windowobs'.computed = windowobs.computed) =>
               ~windowobs'.requested]_vars

\* a call in fullscreen computed a new size and sent nothing
C24_Witness ==
  /\ windowobs.ran
  /\ windowobs.fullscreen
  /\ windowobs.computed # windowobs.before
  /\ windowobs.before # <<0, 0>>
  /\ ~windowobs.requested

\* ---------------------------------------------------------------- C25
\* C25: when the sink of the continuous dump fails to open, the worker
\* writes no frame for that job and switches m_DumpFrames off; nothing but
\* the user's setting switches it on again; the worker signals done all the
\* same, so the FinishFrameData that waits for this job returns
C25_FailedOpenStopsDumping ==
  /\ [][(wpc = "dump" /\ wpc' = "done" /\ m_DumpFrames
           /\ ~frame_dump_started') =>
          (~m_DumpFrames' /\ w_read' = w_read)]_vars
  /\ [][(~m_DumpFrames /\ m_DumpFrames') =>
          (rpc' = rpc /\ wpc' = wpc)]_vars
  /\ [][(wpc = "done" /\ wpc' # "done") =>
          (m_frame_dump_done' /\ wpc' = "wait")]_vars
  /\ (wpc = "done" /\ ~frame_dump_started) ~> m_frame_dump_done
  /\ (rpc = "ffin" /\ ~frame_dump_started) ~> (rpc # "ffin")

\* the worker has ended the dump step of a job that carried no screenshot
\* with the sink not open and continuous dumping off, and the render thread
\* waits for this job in FinishFrameData
C25_Witness ==
  /\ wpc = "done" /\ w_read = "none"
  /\ ~frame_dump_started /\ ~m_DumpFrames
  /\ ~m_frame_dump_done
  /\ rpc = "ffin" /\ m_frame_dump_frame_running

\* ---------------------------------------------------------------- C26
\* the FlushFrameDump of the current Swap found a frame to hand over, is
\* past its map and has submitted no job: the map failed
MapFailed ==
  /\ call.kind = "Swap"
  /\ call.exported_at_entry
  /\ call.dfd = 0
  /\ rpc \notin {"ffd", "ffin", "ffd_map", "dfd"}

\* C26: when mapping the readback texture fails in FlushFrameDump the
\* frame is dropped: no job is submitted (a job is only ever submitted for
\* a mapped texture), m_last_frame_exported is cleared and set again only
\* by the dump of a newly presented frame, so the map is not retried; and
\* the Swap goes on to its lookup and presents its frame if it is a new one
C26_MapFailureDropsFrame ==
  /\ [](rpc = "dfd" =>
          m_frame_dump_readback_textures[1].id \in mapped)
  /\ [](rpc = "ffd_map" =>
          /\ m_last_frame_exported
          /\ m_frame_dump_readback_textures[1].id \notin mapped)
  /\ [][(rpc = "ffd_map" /\ rpc' # "ffd_map" /\ mapped' = mapped) =>
          /\ rpc' = "ffd_tail"
          /\ UNCHANGED <<job_pending, job_buf, m_frame_dump_start,
                         m_frame_dump_frame_running, m_frame_dump_config,
                         m_last_frame_exported>>]_vars
  /\ [][(rpc = "ffd_tail" /\ rpc' # "ffd_tail") =>
          ~m_last_frame_exported']_vars
  /\ [][(~m_last_frame_exported /\ m_last_frame_exported') =>
          (rpc = "swap_post" /\ call'.dcf = 1)]_vars
  /\ [](MapFailed =>
          /\ rpc # "ffd_tail" => (~m_last_frame_exported \/ call.dcf = 1)
          /\ rpc = "ret" =>
               (call.presents = 1
                  <=> (call.entry # NoEntry /\ ~call.dedup)))

\* a Swap whose FlushFrameDump failed to map the readback texture has
\* presented its own frame and is about to return
C26_Witness ==
  /\ MapFailed
  /\ rpc = "ret"
  /\ call.presents = 1
  /\ ~job_pending /\ ~m_frame_dump_frame_running

\* ---------------------------------------------------------------- C27
\* C27: a creation that returns null ends the operation that asked for it:
\* InitializeImGui returns false at the first creation that failed and
\* calls none after it, and neither RenderFrameDump nor
\* QueueFrameDumpReadback calls into a render texture or readback staging
\* texture whose creation returned null
C27_NullCreationIsFatal ==
  /\ imguiobs.ran =>
       /\ imguiobs.result <=> imguiobs.failed = {}
       /\ \A i \in DOMAIN CreateSteps :
            (CreateSteps[i] \in imguiobs.failed
               /\ CreateSteps[i] # "vertex_shader") =>
              \A j \in DOMAIN CreateSteps :
                j > i => CreateSteps[j] \notin imguiobs.attempted
  /\ ~createobs.null_render
  /\ ~createobs.null_staging

\* C28: CalculateTargetSize returns true if and only if the size it
\* computed differs from the stored target size; after a call that
\* returned false the stored size is the one it found, after a call that
\* returned true it is the computed one; so a call that reads the same
\* inputs (scale setting, target rectangle, last XFB size, maximum texture
\* size) as the call before it returns false, and of two such consecutive
\* calls at most one returns true.
C28_ReturnsTrueIffSizeDiffers ==
  /\ [](/\ targetobs.result <=> targetobs.computed # targetobs.before
        /\ ~targetobs.result =>
             <<m_target_width, m_target_height>> = targetobs.before
        /\ targetobs.result =>
             <<m_target_width, m_target_height>> = targetobs.computed)
  /\ [][(/\ targetobs' # targetobs \/ confobs' # confobs
         /\ targetobs'.inputs = targetobs.inputs) =>
          /\ ~targetobs'.result
          /\ <<m_target_width', m_target_height'>> =
               <<m_target_width, m_target_height>>]_vars

\* a configuration check whose CalculateTargetSize call returned false and
\* left the stored size alone, the size being that of a clamped automatic
\* scale a call before it had stored
C28_Witness ==
  /\ confobs.ran
  /\ ~targetobs.result
  /\ g_ActiveConfig.iEFBScale = EFB_SCALE_AUTO_INTEGRAL
  /\ targetobs.unclamped > m_efb_scale
  /\ targetobs.before = targetobs.computed
  /\ <<m_target_width, m_target_height>> = targetobs.before
  /\ m_target_width > EFB_WIDTH

\* scale is the smallest integer, 1 at least, for which the EFB scaled by
\* it is no smaller in either dimension than size
SmallestCover(scale, size) ==
  LET Covers(k) == /\ k >= 1
                   /\ RGeq(<<k * EFB_WIDTH, 1>>, size[1])
                   /\ RGeq(<<k * EFB_HEIGHT, 1>>, size[2])
  IN Covers(scale) /\ ~Covers(scale - 1)

\* the target size is the native EFB size times the integer scale
\* m_efb_scale, which is 1 at least and whose scaled width is within the
\* backend's maximum texture dimension
TargetSizeIsScaledEfb ==
  /\ m_efb_scale >= 1
  /\ m_target_width = EFB_WIDTH * m_efb_scale
  /\ m_target_height = EFB_HEIGHT * m_efb_scale
  /\ m_target_width <= max_texture_size
  /\ m_efb_scale = targetobs.unclamped
       \/ m_efb_scale = max_texture_size \div EFB_WIDTH

WithinAlignmentOf(width, height, aspect) ==
  /\ aspect[1] * Max(height - 1, 0) < aspect[2] * (width + 3)
  /\ aspect[2] * Max(width - 1, 0) < aspect[1] * (height + 3)

\* C30: for every non-Stretch aspect mode and every backbuffer size, the
\* width/height ratio of the target rectangle UpdateDrawRectangle computed
\* differs from the draw aspect ratio CalculateDrawAspectRatio resolved
\* (native for Analog, widescreen for AnalogWide, the detected one for
\* Auto) by no more than rounding each dimension up to an integer and down
\* to a multiple of 4 can introduce: for a rectangle more than one line
\* high, (width - 1) / (height + 3) < aspect < (width + 3) / (height - 1).
C30_RectangleKeepsAspect ==
  LET width == m_target_rectangle.right - m_target_rectangle.left
      height == m_target_rectangle.bottom - m_target_rectangle.top
      expected ==
        IF g_ActiveConfig.aspect_mode = "AnalogWide"
             \/ (g_ActiveConfig.aspect_mode = "Auto"
                   /\ rectobs.in_swap /\ m_aspect_wide)
          THEN AspectToWidescreen(vi_aspect) ELSE vi_aspect
  IN g_ActiveConfig.aspect_mode # "Stretch" =>
       /\ rectobs.aspect = expected
       /\ WithinAlignmentOf(width, height, expected)
       /\ height > 1 =>
            /\ RGeq(<<width + 3, height - 1>>, expected)
            /\ RGeq(expected, <<Max(width - 1, 0), height + 3>>)

\* a presented Swap in Auto mode with the widescreen flag set and crop on:
\* the picture of a 5:4 source is cropped to 16:9, the rectangle is at
\* least 640 wide, higher than the backbuffer, and its ratio is not
\* exactly the draw aspect ratio
C30_Witness ==
  LET width == m_target_rectangle.right - m_target_rectangle.left
      height == m_target_rectangle.bottom - m_target_rectangle.top
  IN /\ rectobs.in_swap
     /\ g_ActiveConfig.aspect_mode = "Auto"
     /\ m_aspect_wide
     /\ g_ActiveConfig.bCrop
     /\ vi_aspect = <<5, 4>>
     /\ width >= EFB_WIDTH
     /\ m_target_rectangle.top < 0
     /\ width * rectobs.aspect[2] # height * rectobs.aspect[1]

\* C31: with cropping disabled, for every backbuffer size and aspect mode,
\* the target rectangle lies inside the backbuffer (0 <= left, 0 <= top,
\* right <= width, bottom <= height), is centred (the two margins of each
\* axis differ by at most the one pixel an odd remainder leaves), and at
\* least one of its dimensions equals the backbuffer dimension rounded down
\* to a multiple of 4; in Stretch mode with a 640 x 480 backbuffer it is
\* exactly (0, 0, 640, 480).
C31_LargestCentredBox ==
  LET r == m_target_rectangle
      w == m_backbuffer_width
      h == m_backbuffer_height
  IN ~g_ActiveConfig.bCrop =>
       /\ 0 <= r.left /\ 0 <= r.top /\ r.right <= w /\ r.bottom <= h
       /\ (w - r.right) - r.left \in -1..1
       /\ (h - r.bottom) - r.top \in -1..1
       /\ \/ r.right - r.left = w - (w % 4)
          \/ r.bottom - r.top = h - (h % 4)
       /\ (g_ActiveConfig.aspect_mode = "Stretch" /\ w = 640 /\ h = 480) =>
            r = [left |-> 0, top |-> 0, right |-> 640, bottom |-> 480]

\* ---------------------------------------------------------------- C32
\* C32: the dump step of the worker that starts a continuous dump to images
\* puts the overwrite question if and only if silent mode is off and the
\* first image of the sequence exists, and no other step puts it; when the
\* user declines, the step writes no image, the dump is not started and
\* continuous dumping is switched off; otherwise the start succeeds and the
\* first image is written; images are written by nothing but a started
\* dump, and in silent mode the question is never put.
C32_ConfirmBeforeOverwrite ==
  /\ [][(wpc = "dump" /\ wpc' = "done") =>
          LET starting == m_DumpFrames /\ ~frame_dump_started
              declined == imageobs'.asked /\ ~imageobs'.answer
          IN /\ imageobs'.asked <=>
                  (starting /\ ~m_DumpFramesSilent /\ 1 \in dump_images)
             /\ declined =>
                  /\ dump_images' = dump_images
                  /\ ~frame_dump_started' /\ ~m_DumpFrames'
             /\ (starting /\ ~declined) =>
                  /\ frame_dump_started' /\ m_DumpFrames'
                  /\ 1 \in dump_images'
                  /\ m_frame_dump_image_counter' = 2]_vars
  /\ [][imageobs' # imageobs => (wpc = "dump" /\ wpc' = "done")]_vars
  /\ [][dump_images' # dump_images =>
          (wpc = "dump" /\ frame_dump_started')]_vars
  /\ [](m_DumpFramesSilent => ~imageobs.asked)

\* the worker has put the question for an existing first image and the
\* user declined: the dump is not started and dumping is switched off
C32_Witness ==
  /\ wpc = "done"
  /\ imageobs.asked /\ ~imageobs.answer
  /\ dump_images = {1}
  /\ ~frame_dump_started /\ ~m_DumpFrames

\* ---------------------------------------------------------------- C33
\* C33: a presented Swap whose BindBackbuffer had no backbuffer to bind and
\* clear (D3D::Reset was given no window, so there is no swap chain) skips
\* the presentation of that frame: it does not go on to draw the XFB and
\* present.
C33_FailedBindSkipsFrame ==
  (call.kind = "Swap" /\ call.binds > 0 /\ d3d_hwnd = NullHandle) =>
    (call.presents = 0 /\ rpc \notin {"overlay_lock", "overlay",
                                      "present_lock", "present"})

\* ---------------------------------------------------------------- C34
\* the frame queued before the current call is still waiting to be handed
\* over
EntryFramePending ==
  /\ call.kind \in {"Swap", "Shutdown"}
  /\ call.exported_at_entry
  /\ m_last_frame_exported
  /\ call.dcf = 0

\* C34 as stated: every frame DumpCurrentFrame queued is handed to the
\* worker exactly once by the next call's flush: a Swap or Shutdown that
\* found a queued frame has submitted one job once the frame is no longer
\* waiting, and a call that found none has submitted no job.
C34_NothingDropped ==
  call.kind \in {"Swap", "Shutdown"} =>
    /\ call.dfd <= 1
    /\ ~call.exported_at_entry => call.dfd = 0
    /\ (call.exported_at_entry /\ ~EntryFramePending) => call.dfd = 1

\* C34 amended: the dump runs one presented frame behind.  A frame is
\* queued only by the DumpCurrentFrame of a presented Swap and only while
\* none is waiting; the next Swap (deduplicated, zero-argument or with
\* dumping switched off alike) or Shutdown stays in its leading
\* FlushFrameDump while that frame waits; the flush reaches the map of the
\* readback texture, a successful map is followed by DumpFrameData, which
\* submits the texture the readback was queued into as the call's only
\* job, and only a failed map goes to the end of the flush without a job;
\* the waiting mark is cleared nowhere else.
C34_OneFrameBehind ==
  /\ [](call.kind \in {"Swap", "Shutdown"} =>
          /\ call.dfd <= 1
          /\ ~call.exported_at_entry => call.dfd = 0)
  /\ [](EntryFramePending =>
          rpc \in {"sfd", "ffd", "ffin", "ffd_map", "dfd", "ffd_unmap",
                   "ffd_tail"})
  /\ [](rpc = "ffd_map" => (EntryFramePending /\ call.dfd = 0))
  /\ [][(rpc = "ffd_map" /\ rpc' # "ffd_map") =>
          IF mapped' # mapped THEN rpc' = "dfd" ELSE rpc' = "ffd_tail"]_vars
  /\ [][(rpc = "dfd" /\ rpc' # "dfd") =>
          /\ call'.dfd = 1 /\ job_pending'
          /\ m_frame_dump_config' = m_frame_dump_readback_textures[1].id
          /\ rpc' = "ffd_unmap"]_vars
  /\ [][(rpc # "ffd_tail" /\ rpc' = "ffd_tail") =>
          \/ rpc = "ffd_map"
          \/ rpc = "ffd_unmap" /\ call.dfd = 1]_vars
  /\ [][(m_last_frame_exported /\ ~m_last_frame_exported') =>
          rpc = "ffd_tail"]_vars
  /\ [][(call.kind = call'.kind /\ call'.dcf # call.dcf) =>
          /\ ~m_last_frame_exported /\ m_last_frame_exported'
          /\ call.kind = "Swap" /\ call.presents = 1]_vars
  /\ [][(~m_last_frame_exported /\ m_last_frame_exported') =>
          call'.dcf = call.dcf + 1]_vars

\* Renderer::Shutdown found a frame queued by the last presented Swap and
\* its ShutdownFrameDumping has handed it to the worker
C34_Witness ==
  /\ call.kind = "Shutdown"
  /\ call.exported_at_entry
  /\ call.dfd = 1
  /\ ~m_last_frame_exported
  /\ rpc = "shutdown_fs"

\* ---------------------------------------------------------------- C35
\* C35: frame dumping is shut down when it is no longer active: when the
\* render thread is between two calls with continuous dumping off, no
\* screenshot request pending, no queued frame left to hand over and the
\* worker still alive, then, unless dumping or a screenshot is requested
\* again, a later Swap stops and joins the worker (and releases the
\* frame-dump textures) without Renderer::Shutdown being called.
C35_IdleDumpingShutsDown ==
  (rpc = "idle" /\ ~IsFrameDumping /\ ~m_last_frame_exported /\ WorkerAlive)
    ~> (\/ ~WorkerAlive /\ m_frame_dump_readback_textures = <<NoTex, NoTex>>
                        /\ call.kind # "Shutdown"
        \/ IsFrameDumping
        \/ call.kind = "Shutdown")

\* ---------------------------------------------------------------- C36
\* C36: whenever DumpCurrentFrame queues a readback while a worker job is
\* outstanding, the readback texture the copy goes into (slot 0 after the
\* rotation, newly created on a size change) is not the texture whose
\* memory the job was given, and that texture is not destroyed: it is the
\* other of the two.
C36_CopyAvoidsOutstandingJob ==
  [][(rpc = "swap_post" /\ m_last_frame_exported'
        /\ (m_frame_dump_frame_running \/ job_pending)) =>
       /\ m_frame_dump_readback_textures'[1].id # m_frame_dump_config
       /\ m_frame_dump_readback_textures'[1].id # 0
       /\ m_frame_dump_readback_textures'[2].id = m_frame_dump_config
       /\ m_frame_dump_config # 0]_vars

\* a frame of another size has been queued while the job of the previous
\* frame is outstanding: slot 0 holds a new texture, slot 1 the job's
C36_Witness ==
  /\ rpc = "begin_imgui" /\ call.kind = "Swap" /\ call.dcf = 1
  /\ call.dfd = 1
  /\ m_frame_dump_frame_running
  /\ m_frame_dump_readback_textures[2].id = m_frame_dump_config
  /\ m_frame_dump_readback_textures[1].size
       # m_frame_dump_readback_textures[2].size
  /\ m_frame_dump_readback_textures[2].size # 0

\* the bit of Renderer::ConfigChangeBits that reports the setting f
TrackedBit(f) ==
  CASE f = "host_config_bits" -> CONFIG_CHANGE_BIT_HOST_CONFIG
    [] f = "iMultisamples" -> CONFIG_CHANGE_BIT_MULTISAMPLES
    [] f = "stereo_mode" -> CONFIG_CHANGE_BIT_STEREO_MODE
    [] f = "iMaxAnisotropy" -> CONFIG_CHANGE_BIT_ANISOTROPY
    [] f = "bForceFiltering" -> CONFIG_CHANGE_BIT_FORCE_TEXTURE_FILTERING
    [] f = "bVSyncActive" -> CONFIG_CHANGE_BIT_VSYNC
    [] f = "bBBoxEnable" -> CONFIG_CHANGE_BIT_BBOX

C38_RequestKeepsFilename ==
  /\ shotobs.written \subseteq 1..shotobs.calls
  /\ m_screenshot_request => m_screenshot_name # NoName

\* the positions at which a thread holds the swap mutex
SwapMutexSections_Render == {"present", "present_unlock"}
SwapMutexSections_UI == {"cs_write", "cs_set", "cs_unlock", "rs_set",
                         "rs_unlock"}

\* C39: no thread holds the overlay mutex and the swap mutex at the same
\* time, and BeginImGuiFrame is never entered by a thread that holds the
\* overlay mutex; so no interleaving of Swap, EndUIFrame, ChangeSurface,
\* ResizeSurface and the UI thread's overlay input deadlocks on the two
\* locks: whoever holds one of them is inside the section it guards and
\* has a step to take there that waits for nothing.
C39_LocksNeverNested ==
  /\ ~(m_imgui_mutex = "render" /\ m_swap_mutex = "render")
  /\ ~(m_imgui_mutex = "ui" /\ m_swap_mutex = "ui")
  /\ rpc = "begin_imgui" => m_imgui_mutex # "render"
  /\ m_imgui_mutex = "render"
       => /\ rpc \in OverlaySections
          /\ ENABLED (Overlay_Draw \/ BeginImGuiFrame_Unlock)
  /\ m_swap_mutex = "render"
       => /\ rpc \in SwapMutexSections_Render
          /\ ENABLED (Present_Backbuffer \/ Present_Unlock)
  /\ m_imgui_mutex = "ui"
       => upc = "imgui_unlock" /\ ENABLED ImGuiInput_Unlock
  /\ m_swap_mutex = "ui"
       => /\ upc \in SwapMutexSections_UI
          /\ ENABLED (ChangeSurface_Write \/ ChangeSurface_Set
                        \/ ChangeSurface_Unlock \/ ResizeSurface_Set
                        \/ ResizeSurface_Unlock)

\* the two locks are held by different threads: the render thread draws
\* the overlay of an EndUIFrame while the UI thread is inside
\* ChangeSurface
C39_Witness ==
  /\ m_imgui_mutex = "render" /\ rpc = "overlay"
  /\ call.kind = "EndUIFrame"
  /\ m_swap_mutex = "ui" /\ upc = "cs_set"

\* C40: a SetWindowSize call records the size it computed as the last
\* requested one even in fullscreen, where it sends nothing; so a call
\* after fullscreen was left that computes the size of the call before it
\* sends no request although the host was never asked for that size; and a
\* request carries the computed size and is sent only when that size
\* differs from the one the call before computed.
C40_FullscreenSizeRecorded ==
  [][windowobs'.tick # windowobs.tick =>
       /\ m_last_window_request' = windowobs'.computed
       /\ windowobs'.fullscreen =>
            (~windowobs'.requested /\ windowobs'.host = windowobs.host)
       /\ (windowobs.ran /\ windowobs.fullscreen /\ ~m_fullscreen_state
             /\ windowobs'.computed = windowobs.computed)
            => (~windowobs'.requested /\ windowobs'.host = windowobs.host)
       /\ windowobs'.requested =>
            /\ windowobs'.arg = windowobs'.computed
            /\ windowobs'.host = windowobs'.computed
            /\ windowobs.ran => windowobs'.computed # windowobs.computed
    ]_<<windowobs, m_last_window_request>>

\* out of fullscreen, the last call computed the size the call before it
\* had recorded and sent no request, and the last request the host
\* received was for another size: the size was first computed in fullscreen
C40_Witness ==
  /\ windowobs.ran /\ ~windowobs.fullscreen
  /\ windowobs.computed = windowobs.before
  /\ ~windowobs.requested
  /\ windowobs.host # windowobs.computed
  /\ windowobs.host # <<0, 0>>
====
